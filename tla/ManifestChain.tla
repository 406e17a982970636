---------------------------- MODULE ManifestChain ----------------------------
(***************************************************************************)
(* What the manifests of one workflow promise whoever follows them (a load *)
(* of the latest state, a walk back to an earlier one), without S3, phases,*)
(* attempts or crashes.  Manifests are only added, each under an id of its *)
(* own and below a parent that is stored, of the same execution and of an  *)
(* earlier segment, so that every walk over the parents ends.  The head    *)
(* moves to stored manifests only and never back to an earlier segment.    *)
(***************************************************************************)
EXTENDS Naturals

CONSTANT NoManifest

VARIABLES
  store,  \* manifests: id (with the execution that drew it), segment, parent
  head    \* id and segment of the manifest a load starts from

chainVars == <<store, head>>

ChainInit == store = {} /\ head = [id |-> NoManifest, segment |-> 0]

Add(m) ==
  /\ \A n \in store : n.id # m.id
  /\ m.parent = NoManifest \/ \E p \in store : /\ p.id = m.parent
                                               /\ p.id[1] = m.id[1]
                                               /\ p.segment < m.segment
  /\ store' = store \cup {m}
  /\ UNCHANGED head

MoveHead(m) ==
  /\ head.id = NoManifest \/ head.segment <= m.segment
  /\ head' = [id |-> m.id, segment |-> m.segment]
  /\ UNCHANGED store

ChainNext ==
  \/ \E m \in store' : Add(m)
  \/ \E m \in store : MoveHead(m)

ChainSpec == ChainInit /\ [][ChainNext]_chainVars
==============================================================================
