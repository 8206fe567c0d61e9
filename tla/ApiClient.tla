----------------------------- MODULE ApiClient -----------------------------
(***************************************************************************)
(* Requests of a page of the web client to the API server (lib/api.ts).    *)
(*                                                                         *)
(* A request is sent, handled by the server at some later time, and its    *)
(* answer runs the continuation of the call, in an order that nothing      *)
(* relates to the order of sending.  A request may fail before or after    *)
(* the server has handled it; the page sees one kind of error.             *)
(***************************************************************************)
EXTENDS Integers, FiniteSets, Sequences, SequencesExt

CONSTANT MaxInFlight   \* bound on the requests a page waits for

ASSUME ApiAssumption == MaxInFlight \in Nat \ {0}

VARIABLE net   \* the requests in flight, oldest first

\* status is "sent", "read" (the server has read the row it is going to write
\* back), "ok" (handled) or "error" (refused, or the connection failed).  data
\* holds the row or the body, if any.  late is history: the answer to a later
\* request of the kind has come in before.
Request(op, arg) == [op |-> op, arg |-> arg, status |-> "sent", data |-> <<>>, late |-> FALSE]

Room(k) == Len(net) + k <= MaxInFlight

Send(r) == Room(1) /\ net' = Append(net, r)

Waiting(i) == net[i].status = "sent"
Midway(i)  == net[i].status = "read"
Handled(i) == net[i].status = "ok"
Data(i)    == net[i].data[1]
Failed(i)  == net[i].status = "error"

Read(i, d)   == net' = [net EXCEPT ![i].status = "read", ![i].data = <<d>>]
Answer(i, d) == net' = [net EXCEPT ![i].status = "ok", ![i].data = <<d>>]
Fail(i)      == net' = [net EXCEPT ![i].status = "error"]

\* The same for a request the server has handled: what loads of kind op have
\* read before is stale.
LoseAnswer(i, op) == net' = [k \in DOMAIN net |->
                                IF k = i THEN [net[k] EXCEPT !.status = "error"]
                                ELSE IF net[k].op = op /\ net[k].status = "ok"
                                     THEN [net[k] EXCEPT !.late = TRUE] ELSE net[k]]

\* The continuation of request i: the call has returned, and sends those of rs.
Return(i, rs) == net' = RemoveAt(net, i) \o rs

\* The same for a request that loads data: older ones of its kind become late.
ReturnLoad(i, rs) ==
    net' = RemoveAt([k \in DOMAIN net |-> IF k < i /\ net[k].op = net[i].op
                                          THEN [net[k] EXCEPT !.late = TRUE] ELSE net[k]], i) \o rs

\* The clean-up of an effect: nobody reads the answer to its request, the only
\* one of the kind.
Without(n, op) == RemoveFirstMatch(n, LAMBDA r : r.op = op)

InFlight(ops) == {i \in DOMAIN net : net[i].op \in ops}
=============================================================================
