--------------------------- MODULE MCSvPublisher ---------------------------
(***************************************************************************)
(* Small instances of SvPublisher: the configurations choose one or two    *)
(* values to set and whether ASDUs carry a data set name.                  *)
(***************************************************************************)
EXTENDS SvPublisher

NoDatSets == {NoDatSet}
OneDatSet == {NoDatSet, 1}

CONSTANTS v1, v2
=============================================================================
