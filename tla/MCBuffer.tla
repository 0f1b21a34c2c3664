------------------------------ MODULE MCBuffer ------------------------------
(***************************************************************************)
(* Instances of Buffer for TLC.                                            *)
(***************************************************************************)
EXTENDS Buffer

\* One or two bytes at a time.
MCData == {<<"a">>, <<"b">>, <<"a", "b">>}

\* A split of two different bytes, as in "\r\n".
MCSplit == <<"a", "b">>

\* The bound of the runs: a connection is followed until its second slip,
\* not counting a second write that waits.
FewSlips == \E s \in Slips : slips \subseteq {"again", s}
=============================================================================
