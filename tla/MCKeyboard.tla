----------------------------- MODULE MCKeyboard -----------------------------
(* Two keyboards, one of which is plugged in: with one key that has a      *)
(* character in each table (so two characters) and a shift key, on a ring  *)
(* of three slots; or with both shift keys and the grey keys, to which the *)
(* ring does not matter.  There is room for two codes, fewer than a grey   *)
(* key can send at once.                                                   *)
EXTENDS Keyboard

CONSTANTS Typewriter, Cursors

VARIABLE plugged   \* the keys of the keyboard

MCInit == Init /\ plugged \in {Typewriter, Cursors}

MCNext ==
  /\ \/ \E k \in plugged : Press(k) \/ Release(k)
     \/ Send
     \/ Lose
     \/ keyboardirqh
     \/ get_key
  /\ UNCHANGED plugged

MCSpec ==
  /\ MCInit /\ [][MCNext]_<<vars, plugged>>
  /\ WF_vars(get_key) /\ WF_vars(keyboardirqh)
=============================================================================
