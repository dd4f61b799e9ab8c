------------------------------ MODULE EventFeed ------------------------------
(***************************************************************************)
(* What a teacher who follows a run is promised: the events of the run     *)
(* that are meant for teachers form a list that only grows at its end, and *)
(* every client receives that list from its start, in order, without a gap *)
(* and without a repetition, however often it reconnects.                  *)
(***************************************************************************)
EXTENDS Naturals, Sequences

CONSTANT Clients

VARIABLES
  feed,      \* sequence numbers of the committed teacher events
  received   \* the numbers each client has received, in order of arrival

Elements(s) == {s[i] : i \in DOMAIN s}

FeedInit ==
  /\ feed = {}
  /\ received = [c \in Clients |-> << >>]

\* One transaction commits numbers, all above what was committed before.
Publish ==
  /\ feed \subseteq feed'
  /\ \A n \in feed' \ feed, m \in feed : m < n
  /\ UNCHANGED received

\* The client receives the first number it has not received yet.
Receive(c, n) ==
  /\ n \in feed \ Elements(received[c])
  /\ \A m \in feed : m < n => m \in Elements(received[c])
  /\ received' = [received EXCEPT ![c] = Append(@, n)]
  /\ UNCHANGED feed

FeedNext == Publish \/ \E c \in Clients, n \in feed : Receive(c, n)

FeedSpec == FeedInit /\ [][FeedNext]_<<feed, received>>

=============================================================================
