----------------------------- MODULE Transport -----------------------------
(***************************************************************************)
(* The message board of src/src/transport: InMemoryTransport behind the     *)
(* Transport trait.  It only ever grows: publish inserts an envelope under   *)
(* its content-derived EnvelopeId unless that id is present, subscribe       *)
(* returns every envelope a filter matches, in EnvelopeId order.             *)
(*                                                                           *)
(* EnvelopeId is an FNV-1a hash of every field.  Two abstractions follow:    *)
(*   - the id identifies the content (hash collisions are left out), so      *)
(*     dedup by id is set union;                                             *)
(*   - the order of two ids is a coin toss, fixed once both exist.  Callers  *)
(*     fold a subscription into a map keyed by sender, where the last        *)
(*     envelope wins, so all they can see of the order is which envelope of  *)
(*     a sender has the greatest id.  The variable `last` records that.      *)
(***************************************************************************)
EXTENDS Integers

VARIABLES
    board,    \* the envelopes published so far
    last      \* those with the greatest id among the board's envelopes of
              \* their class, topic, round, sender and recipient

Broadcast == -1        \* recipient: None
Anyone    == -2        \* the round or recipient of a filter field left at None

Envelope(class, topic, round, seat, recipient, payload) ==
    [class |-> class, topic |-> topic, round |-> round, seat |-> seat,
     recipient |-> recipient, payload |-> payload]

\* The filters the callers build: a class, a topic, perhaps a round and a
\* recipient.  None of them restricts the sending seat.
Filter(class, topic, round, recipient) ==
    [class |-> class, topic |-> topic, round |-> round, recipient |-> recipient]

\* A mutant: a filter that forgets the ceremony/session binding tag.
MatchesAnyTopic(f, e) ==
    /\ e.class = f.class
    /\ e.recipient # Broadcast => f.recipient = e.recipient

\* Filter::matches.  A directed envelope reaches only a filter that names its
\* recipient; a broadcast one ignores the recipient field.
Matches(f, e) ==
    /\ e.class = f.class
    /\ e.topic = f.topic
    /\ f.round \in {Anyone, e.round}
    /\ e.recipient # Broadcast => f.recipient = e.recipient

\* The envelopes that compete with e when a subscriber folds them by sender.
Rivals(e) ==
    {d \in board : /\ d.class = e.class
                   /\ d.topic = e.topic
                   /\ d.round = e.round
                   /\ d.seat = e.seat
                   /\ d.recipient = e.recipient}

Publish(e) ==
    \/ /\ e \in board                          \* dedup: a no-op
       /\ UNCHANGED <<board, last>>
    \/ /\ e \notin board                       \* the new id is the greatest
       /\ board' = board \union {e}
       /\ last' = (last \ Rivals(e)) \union {e}
    \/ /\ e \notin board                       \* an older rival's id is greater
       /\ Rivals(e) # {}
       /\ board' = board \union {e}
       /\ UNCHANGED last

\* What is left of subscribe(f) once it is folded into a map by sender.
Collect(f) == {e \in last : Matches(f, e)}

TransportInit == board = {} /\ last = {}
=============================================================================
