----------------------------- MODULE MCSceWriter ------------------------------
(* Small instances of SceWriter for TLC: every kind of container, sections    *)
(* that overlap, an empty section, and a header with no sections at all.      *)
EXTENDS SceWriter

MCKeys        == {"k1", "k2"}
MCSigningKeys == {"k1"}

Ph(off, len, load) == [off |-> off, len |-> len, load |-> load]

MCLayouts ==
    { PkgLayout(2, 3), PkgLayout(3, 2), SppLayout(1), SppLayout(3),
      SelfLayout(<<Ph(0, 2, TRUE), Ph(1, 2, TRUE), Ph(1, 1, FALSE)>>, 4, 1),
      SelfLayout(<<Ph(0, 3, TRUE), Ph(3, 0, TRUE)>>, 3, 0),
      SelfLayout(<<>>, 2, 3) }
==============================================================================
