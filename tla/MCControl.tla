----------------------------- MODULE MCControl -----------------------------
(***************************************************************************)
(* Small instances of Control for TLC: files of a few forms, in the order  *)
(* config.lisp has them.                                                   *)
(***************************************************************************)
EXTENDS Control

CONSTANTS DE, FR, Wide, Tight, Common, Library, O1, O2, Scale, Low, High, Pool, Area

Reset == [fn |-> "reset-state"]
Fail == [fn |-> "error"]
Fleet(n, p) == [fn |-> "mm-fleet", name |-> n, params |-> p]
Takers(n, p) == [fn |-> "aggressor-fleet", name |-> n, params |-> p]
Set(k, v) == [fn |-> "set", knob |-> k, value |-> v]
Make(fn, i) == [fn |-> fn, item |-> i]
Again(o) == [fn |-> "every", recalls |-> o]
Timer(o) == [fn |-> "run-with-timer", recalls |-> o]
Watching(f) == [fn |-> "watch-file", path |-> f]

Edits ==
  { <<Reset, Watching(Common), Set(Scale, Low), Make("make-market", Area),
      Fleet(DE, Wide), Again(O1), Timer(O2)>>,
    <<Reset, Set(Scale, High), Fleet(DE, Tight), Again(None), Again(None)>>,
    <<Reset, Fleet(DE, Tight), Takers(FR, Wide), Fail, Again(None)>>,
    <<Reset, Watching(Common), Watching(Library), Make("make-gridpool", Pool),
      Make("make-coupling", Area), Takers(FR, Tight), Timer(O2)>>,
    Unparsable }
=============================================================================
