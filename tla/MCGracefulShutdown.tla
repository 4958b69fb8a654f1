--------------------------- MODULE MCGracefulShutdown ---------------------------
(* Two services on one Context: one with an event waiting, the other with
   a request, so that each can be busy while the other stops. *)
EXTENDS GracefulShutdown

Both == {"calc", "mail"}
Work == {"calcEvent", "mailRequest"}
HomeOfWork == [m \in Work |-> IF m = "calcEvent" THEN "calc" ELSE "mail"]
KindOfWork == [m \in Work |-> IF m = "calcEvent" THEN "event" ELSE "request"]

================================================================================
