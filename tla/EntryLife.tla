------------------------------ MODULE EntryLife ------------------------------
(***************************************************************************)
(* What the write path promises about one memory, whatever happens inside: *)
(* its life, and the wordings under which a search by meaning can find it. *)
(* A memory is stored once, is reworded any number of times and is         *)
(* forgotten for good.  While it is stored its index holds only wordings   *)
(* it has had, only grows or moves on to another wording, and is never     *)
(* empty once the memory is said to be embedded.                           *)
(***************************************************************************)
EXTENDS Naturals

CONSTANTS
    Ids,
    Wordings   \* the numbers 1, 2, ... of the wordings a memory can have

VARIABLES
    life,      \* what a client can know of a memory
    wording,   \* how many wordings it has had; 0 when it is not stored
    indexed    \* the wordings it is found under

vars == <<life, wording, indexed>>

Lives == {"absent", "queued", "embedded", "forgotten"}

Stored(id) == life[id] \in {"queued", "embedded"}

Init ==
    /\ life = [id \in Ids |-> "absent"]
    /\ wording = [id \in Ids |-> 0]
    /\ indexed = [id \in Ids |-> {}]

Store(id) ==
    /\ life[id] = "absent"
    /\ life' = [life EXCEPT ![id] = "queued"]
    /\ wording' = [wording EXCEPT ![id] = 1]
    /\ UNCHANGED indexed

Reword(id) ==
    /\ Stored(id) /\ wording[id] + 1 \in Wordings
    /\ wording' = [wording EXCEPT ![id] = @ + 1]
    /\ UNCHANGED <<life, indexed>>

\* A wording is indexed, in the place of at most one other; a writer that was overtaken
\* may still do so after the memory is forgotten.
Index(id, v) ==
    /\ life[id] # "absent"
    /\ Stored(id) => v <= wording[id]
    /\ \E old \in indexed[id] \cup {v} : indexed' = [indexed EXCEPT ![id] = (@ \ {old}) \cup {v}]
    /\ UNCHANGED <<life, wording>>

Embed(id) ==
    /\ life[id] = "queued" /\ indexed[id] # {}
    /\ life' = [life EXCEPT ![id] = "embedded"]
    /\ UNCHANGED <<wording, indexed>>

Requeue(id) ==
    /\ life[id] = "embedded"
    /\ life' = [life EXCEPT ![id] = "queued"]
    /\ UNCHANGED <<wording, indexed>>

Forget(id) ==
    /\ Stored(id)
    /\ life' = [life EXCEPT ![id] = "forgotten"]
    /\ wording' = [wording EXCEPT ![id] = 0]
    /\ UNCHANGED indexed

Unindex(id) ==
    /\ life[id] = "forgotten"
    /\ \E old \in indexed[id] : indexed' = [indexed EXCEPT ![id] = @ \ {old}]
    /\ UNCHANGED <<life, wording>>

Next ==
    \E id \in Ids :
        \/ Store(id)
        \/ Reword(id)
        \/ \E v \in Wordings : Index(id, v)
        \/ Embed(id)
        \/ Requeue(id)
        \/ Forget(id)
        \/ Unindex(id)

Spec == Init /\ [][Next]_vars
=============================================================================
