---------------------------- MODULE MCLineEditor ----------------------------
(* Three characters fit after a prompt at the left, one after a prompt that  *)
(* ends further right: a word, an empty word, "a" quoted, two words where    *)
(* argv[] has room for one.                                                *)
EXTENDS LineEditor

MCBuiltins == {<<"a">>}
MCPrograms == {<<"a", "a">>}
=============================================================================
