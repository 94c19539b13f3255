------------------------ MODULE MCCertificateExport ------------------------
(***************************************************************************)
(* Constant values of the run on CertificateExport.                        *)
(***************************************************************************)
EXTENDS CertificateExport, TLC

\* Sessions and requests differ in nothing but their names.
ExportSymmetry == Permutations(Requests) \cup Permutations(Sessions)
=============================================================================
