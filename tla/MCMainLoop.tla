----------------------------- MODULE MCMainLoop -----------------------------
(* The main loop, with the sizes of main.cpp and a short day for millis(). *)
EXTENDS MainLoop

\* A report has 132 characters at first; its numbers grow by up to 17 in six
\* years, and 149 is what fits.
ReportLengths == {132, 149}
=============================================================================
