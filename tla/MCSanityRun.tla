---------------------------- MODULE MCSanityRun ----------------------------
(***************************************************************************)
(* Constants for model-checking SanityRun.                                 *)
(***************************************************************************)
EXTENDS SanityRun

CONSTANTS full, pre, nodown, noup

(* "full" has both checks and a Down; "pre" only a pre-check and a Down;   *)
(* "nodown" a post-check and no Down; "noup" a pre-check and no Up.        *)
MCContents == {full, pre, nodown, noup}
MCHasUp == {full, pre, nodown}
MCHasDown == {full, pre}
MCHasPre == {full, pre, noup}
MCHasPost == {full, nodown}
MCEditable == {1}
=============================================================================
