---------------------------- MODULE MCBroadcast -----------------------------
(* Instances of Broadcast for TLC.                                         *)
EXTENDS Broadcast, TLC

CONSTANTS svc, u1, u2, s1, s2, w1, w2, t1, t2

Symmetry == Permutations({u1, u2}) \cup Permutations({t1, t2}) \cup Permutations({w1, w2})

Used == {k \in Keys : row[k] # NoRow}
Devices == {s \in Subscriptions : owner[s] # "unused"}
Told == {u \in Users : \E m \in Messages : feed[m][u] # "none"}
Concerned == {u \in Users : consent[u] # "open"} \cup Told
Busy == {w \in Workers : worker[w] # Idle}
Running == {t \in Tasks : task[t].pc # "idle"}

\* The chats and the copies of a broadcast share its status, its lock and nothing
\* else: an instance looks at one of them.  What a crash does to the copies does not
\* depend on whose they are.
NoCopies == Used = {} /\ Devices = {} /\ Concerned = {}
NoChats ==
  /\ \A u \in Users : message[u] = "none" /\ chat[u] = 0
  /\ \A t \in Tasks : task[t].users = {}
  /\ Cardinality(Running) <= 1
  /\ Cardinality(Concerned) <= 1
  /\ status = "none" \/ faults = 0
OneSide == NoCopies \/ NoChats

\* Mails and pushes share no row: two runs on one mail or one device, or one run on
\* two of them.
SomeMails ==
  /\ Devices = {}
  /\ Cardinality(Used) = 2 => Cardinality(Busy) <= 1
SomePushes ==
  /\ Used \cap Mails = {}
  /\ cancel = "idle"
  /\ Cardinality(Devices) = 2 => status = "none" /\ Cardinality(Busy) <= 1
OneChannel == SomeMails \/ SomePushes

\* Copies of another message are delivered while there is no broadcast, or after it.
OneMessage ==
  (\E u \in Users : feed[svc][u] # "none") =>
    \/ status = "none"
    \/ status = "COMPLETED" /\ queued = {"send"} /\ Running = {} /\ cancel = "idle"
=============================================================================
