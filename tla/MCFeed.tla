------------------------------- MODULE MCFeed -------------------------------
(***************************************************************************)
(* Small instances of Feed for TLC.                                        *)
(***************************************************************************)
EXTENDS Feed

CONSTANTS O1, O2, C1

To(kind, filter) == [kind |-> kind, filter |-> filter]
AnyKind ==
  { To("ui_tape", {O1, O2}), To("ui_book", {O1, O2}),
    To("grpc_live", {O1}), To("grpc_replay", {O1}) }
Tape == { To("ui_tape", {O1, O2}) }
Live == { To("grpc_live", {O1, O2}) }
=============================================================================
