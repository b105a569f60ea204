----------------------------- MODULE MCKbBuild -----------------------------
(***************************************************************************)
(* The drafts TLC explores.                                                *)
(*   Trio: two versions of one source, and a draft without a source_ref    *)
(*         that names the first in `supersedes`.                           *)
(*   Apart: two versions of one source, with an unrelated draft between.   *)
(*   Versions: two versions of one source, the second with a tag: as one   *)
(*         comes and goes, the topic's row and the documents come back.    *)
(*   Pair: two unrelated documents with the same tag.                      *)
(***************************************************************************)
EXTENDS KbBuildInvariants

CONSTANTS r, a, b, c

TrioRefOf        == <<r, r, NoRef>>
TrioDocOf        == <<a, b, c>>
TrioSupersedesOf == <<NoDraft, NoDraft, 1>>

ApartRefOf == <<r, NoRef, r>>

VersionsRefOf    == <<r, r>>
VersionsTopicsOf == <<{}, Topics>>

PairRefOf == <<NoRef, NoRef>>
PairDocOf == <<a, b>>

NoSupersedes == [d \in Drafts |-> NoDraft]
SameTags     == [d \in Drafts |-> Topics]

=============================================================================
