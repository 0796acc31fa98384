----------------------------- MODULE MCSceSystem -----------------------------
(* Small instances of SceSystem for TLC. *)
EXTENDS SceSystem

MCKeys        == {"k1", "k2"}
MCSigningKeys == {"k1"}
MCKeyLists    == {<<>>, <<"k2">>, <<"k1">>, <<"k2", "k1">>}

Ph(off, len, load) == [off |-> off, len |-> len, load |-> load]

MCLayouts ==
    { PkgLayout(2, 3), PkgLayout(3, 2), SppLayout(3),
      SelfLayout(<<Ph(0, 2, TRUE), Ph(1, 2, TRUE), Ph(1, 1, FALSE)>>, 4, 1) }

MCRegions == {"hdr", "info", "body", "data"}
==============================================================================
