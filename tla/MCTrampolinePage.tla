-------------------------- MODULE MCTrampolinePage --------------------------
(* TrampolinePage on pages of 40 bytes.  The sizes are those of the i386    *)
(* encodings, whose 11 bytes are not a multiple of the alignment: two       *)
(* strides of 16 fit on a page and the 8 bytes left are too few for a third.*)
EXTENDS TrampolinePage

X86SizeOf == [indirect |-> 11, direct |-> 16]
=============================================================================
