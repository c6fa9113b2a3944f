---------------------------- MODULE VersionStore ----------------------------
(***************************************************************************)
(* What Configurator promises the owner of a configuration object: the     *)
(* object has a content that its owner edits, every version that was saved *)
(* keeps its content for ever, and the stamp on the object always names a  *)
(* saved version, whose content is installed in the same step as the stamp *)
(* is set.  Whether every edit is saved is not promised here: it is the    *)
(* subject of properties of its own in the detailed modules.               *)
(***************************************************************************)
CONSTANTS Versions,   \* the names a version can get
          Data,       \* the contents the object can have
          NoVersion,  \* the stamp of an object that was never versioned
          NoData      \* the content of a version that was never saved

VARIABLES content,    \* what the object holds
          stamp,      \* the version the object says it holds
          saved       \* the content of each version

vars == <<content, stamp, saved>>

Saved(v) == saved[v] # NoData

Init ==
  /\ content \in Data
  /\ stamp = NoVersion
  /\ saved = [v \in Versions |-> NoData]

\* The owner changes the content and leaves the stamp, or drops it.
Edit(d) ==
  /\ content' = d
  /\ stamp' \in {stamp, NoVersion}
  /\ UNCHANGED saved

\* A content is saved under a name that was never used.
Save(v, d) ==
  /\ ~Saved(v)
  /\ saved' = [saved EXCEPT ![v] = d]
  /\ UNCHANGED <<content, stamp>>

\* The object is stamped with a saved version and holds its content.
Install(v) ==
  /\ Saved(v)
  /\ content' = saved[v]
  /\ stamp' = v
  /\ UNCHANGED saved

Next ==
  \/ \E d \in Data : Edit(d)
  \/ \E v \in Versions, d \in Data : Save(v, d)
  \/ \E v \in Versions : Install(v)

Spec == Init /\ [][Next]_vars
=============================================================================
