----------------------------- MODULE MCGateway ------------------------------
(* Gateway with two requests, one limited connector and one that is not. *)
EXTENDS Gateway, TLC

CONSTANTS sf, zd, r1, r2

MCBudget == sf :> 2

Ask(mode, admitted, fetches, cached, timeout) ==
  [mode |-> mode, known |-> TRUE, admitted |-> admitted,
   conns |-> {fetches[k] : k \in DOMAIN fetches}, fetches |-> fetches,
   cached |-> cached, timeout |-> timeout]

Kinds ==
  <<Ask("json", TRUE, <<sf, zd>>, TRUE, FALSE),
    Ask("stream", TRUE, <<zd>>, FALSE, TRUE),
    Ask("async", TRUE, <<sf>>, FALSE, FALSE),
    Ask("json", FALSE, <<zd>>, FALSE, FALSE),
    [Ask("async", TRUE, <<sf>>, FALSE, FALSE) EXCEPT !.known = FALSE]>>
MCQueries == {Kinds[k] : k \in DOMAIN Kinds}

(* Two different queries, whichever request carries which, or two jobs.    *)
(* Two joins meet over the budget as a join and a job do.                  *)
Paired ==
  \E i, j \in DOMAIN Kinds :
    /\ i < j \/ (i = j /\ Kinds[i].admitted /\ Kinds[i].mode = "async")
    /\ query[r1] = Kinds[i]
    /\ query[r2] = Kinds[j]

MCInit == Init /\ Paired
MCSpec == MCInit /\ [][Next]_vars /\ Fairness

(* A probe in two chunks, and a stream. *)
MCChunked == {Ask("json", TRUE, <<zd, sf, sf>>, TRUE, FALSE)}
MCStreamed == {Ask("stream", TRUE, <<sf>>, FALSE, FALSE)}
=============================================================================
