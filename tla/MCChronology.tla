---------------------------- MODULE MCChronology ----------------------------
(* One requested file, one that nobody asks for, and a client whose request *)
(* has no readable time.                                                    *)
EXTENDS Chronology

Request(t, ok) == [file |-> "f", ip |-> "c", at |-> t, ok |-> ok]

MCLogContents == {{Request(1, FALSE), Request(3, TRUE)}, {Request(0, TRUE), Request(4, TRUE)}}
=============================================================================
