---------------------------- MODULE MCDisplayLoop ----------------------------
(* Two buffers; samples that agree (0, 1), that do not (1, 4), and that are *)
(* far from one another (0, 4).                                            *)
EXTENDS DisplayLoop

MCBuffers == {1, 2}
MCSamples == {0, 1, 4}
MCLate == {"lateflip"}

(* A drift of 50 mg from sample to sample. *)
MCDrift == {0, 1, 2}
MCNone == {}
==============================================================================
