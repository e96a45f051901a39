------------------------- MODULE MCExternalManifest -------------------------
(* Small instances of ExternalManifest.                                    *)
EXTENDS ExternalManifest

(* All manifests have the same length, so that the size check of the code  *)
(* never tells two of them apart.                                          *)
MCSize == [m \in Manifests |-> 1]
=============================================================================
