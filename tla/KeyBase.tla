------------------------------ MODULE KeyBase -------------------------------
(***************************************************************************)
(* What a store base promises to those who keygen and sign on it, without    *)
(* its files: a keygen that ran alone and finished holds the base until the  *)
(* next one begins, whatever earlier runs left and whatever crashes; a load   *)
(* that had one holder from beginning to end gets a quorum of that holder's  *)
(* shares and its group.  A load across a change of holder may fail, or get   *)
(* a quorum of shares of any keygens that have begun.                        *)
(***************************************************************************)
CONSTANTS
    Keygens,
    Quorums,        \* the sets of seats whose shares can sign
    Nobody          \* no keygen

VARIABLES
    begun,      \* the keygens that have begun,
    writing,    \* those still at work,
    finished,   \* and those that reported success
    sole,       \* the last to have begun, if no other was at work; else Nobody
    load        \* a load: its state, who held the base when it began, what it got

baseVars == <<begun, writing, finished, sole, load>>

Holder == IF sole \in finished THEN sole ELSE Nobody

NoLoad == [state |-> "idle", from |-> Nobody, shares |-> <<>>, group |-> Nobody]

BaseInit ==
    /\ begun = {} /\ writing = {} /\ finished = {}
    /\ sole = Nobody
    /\ load = NoLoad

Begin(g) ==
    /\ g \notin begun
    /\ begun' = begun \union {g}
    /\ writing' = writing \union {g}
    /\ sole' = IF writing = {} THEN g ELSE Nobody
    /\ UNCHANGED <<finished, load>>

Finish(g) ==
    /\ g \in writing
    /\ writing' = writing \ {g}
    /\ finished' = finished \union {g}
    /\ UNCHANGED <<begun, sole, load>>

Stop(g) ==
    /\ g \in writing
    /\ writing' = writing \ {g}
    /\ UNCHANGED <<begun, finished, sole, load>>

\* The machine goes down: what a finished keygen holds, it keeps.
GoDown ==
    /\ writing' = {}
    /\ load' = NoLoad
    /\ UNCHANGED <<begun, finished, sole>>

\* A load of a base that somebody holds cannot fail at once.
BeginLoad ==
    /\ load.state # "loading"
    /\ \/ load' = [state |-> "loading", from |-> Holder, shares |-> <<>>, group |-> Nobody]
       \/ Holder = Nobody /\ load' = [NoLoad EXCEPT !.state = "failed"]
    /\ UNCHANGED <<begun, writing, finished, sole>>

Undisturbed == load.from # Nobody /\ load.from = sole

FailLoad ==
    /\ load.state = "loading"
    /\ ~Undisturbed
    /\ load' = [load EXCEPT !.state = "failed"]
    /\ UNCHANGED <<begun, writing, finished, sole>>

\* What it gets may be of several keygens, unless it was undisturbed.
EndLoad ==
    /\ load.state = "loading"
    /\ \E quorum \in Quorums : load'.shares \in [quorum -> begun]
    /\ load'.group \in begun
    /\ Undisturbed =>
         /\ load'.group = sole
         /\ \A i \in DOMAIN load'.shares : load'.shares[i] = sole
    /\ load' = [state |-> "loaded", from |-> load.from,
                shares |-> load'.shares, group |-> load'.group]
    /\ UNCHANGED <<begun, writing, finished, sole>>

BaseNext ==
    \/ \E g \in Keygens : Begin(g) \/ Finish(g) \/ Stop(g)
    \/ GoDown
    \/ BeginLoad \/ FailLoad \/ EndLoad

BaseSpec == BaseInit /\ [][BaseNext]_baseVars
=============================================================================
