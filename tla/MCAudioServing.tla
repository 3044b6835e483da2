---------------------------- MODULE MCAudioServing ----------------------------
(* A small instance of AudioServing for TLC: an edit, a playback, a spectrum. *)
EXTENDS AudioServing

CONSTANTS e1, p1, t1, u1, u2

EditAndStreams == {e1, p1, t1}
PlaybackAndSpectrum == {p1, t1}
Spectrum == {t1}
TwoUsers == {u1, u2}
OneVisitor == [c \in EditAndStreams |-> IF c = p1 THEN TwoUsers ELSE {u1}]
=============================================================================
