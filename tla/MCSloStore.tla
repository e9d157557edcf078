----------------------------- MODULE MCSloStore -----------------------------
(***************************************************************************)
(* Two CRs for TLC.  The first moves between an id of its own and one it   *)
(* shares with the second, whose author may also forget the id.            *)
(***************************************************************************)
EXTENDS SloStore

CONSTANTS one, two, own, shared

MCIdsOf == [o \in {one, two} |->
              IF o = one THEN {own, shared} ELSE {shared, NoId}]

\* One CR that keeps its id.
MCOwnId == [o \in {one} |-> {own}]
=============================================================================
