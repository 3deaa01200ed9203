---------------------------- MODULE MCCertificate ----------------------------
(* Instances of the certificate's life for TLC. *)
EXTENDS Certificate

Base == [created |-> 2, calibrated |-> 1, expires |-> 4, maxAge |-> 2,
         artifact |-> "a1", model |-> "m1"]

\* The base, a later expiry, and another artifact of a greater age with
\* a calibration that is dated at the edge of the skew.
MCDraft ==
    {Base,
     [Base EXCEPT !.expires = 5],
     [Base EXCEPT !.maxAge = 4, !.calibrated = 3, !.artifact = "a2"]}
MCTime == {3}
=============================================================================
