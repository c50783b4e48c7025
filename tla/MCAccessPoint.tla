---------------------------- MODULE MCAccessPoint ----------------------------
(***************************************************************************)
(* Two POSTs at a time with the settings of the image and two others, one  *)
(* of which the form's readers take for those of the image: it differs in  *)
(* the country code, or after a second equals sign.                        *)
(***************************************************************************)
EXTENDS AccessPoint, TLC

CONSTANTS s1, s2, s3

MCRead == (s1 :> "a") @@ (s2 :> "a") @@ (s3 :> "b")

=============================================================================
