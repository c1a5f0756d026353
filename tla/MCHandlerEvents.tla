--------------------------- MODULE MCHandlerEvents ---------------------------
(* Small instances of HandlerEvents. *)
EXTENDS HandlerEvents, TLC

(* The second configuration moves the handler from Redis to PostgreSQL.    *)
Brokers == 1 :> "redis" @@ 2 :> "pg" @@ 3 :> "nobroker"
=============================================================================
