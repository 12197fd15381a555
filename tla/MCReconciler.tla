---------------------------- MODULE MCReconciler ----------------------------
(***************************************************************************)
(* Small instances of Reconciler: the specs users may choose between.      *)
(* Clients, Secrets and the rest are model values c1, c2, k1, ... declared *)
(* as constants here so that the specs can name them.                      *)
(***************************************************************************)
EXTENDS ReconcilerSync, TLC
CONSTANTS c1, c2, s1, k1, k2, m1, w1

\* Provider versions that name a signing key: the later one, the first, none.
MCLaterSigned == {1}
MCFirstSigned == {0}

\* A key every profile has, and one that comes with the certificate.
MCSourceKeys == {"issuer", "saml.crt"}
MCKeysOf(data) == IF data.cert THEN MCSourceKeys ELSE {"issuer"}

Untargeted(shape, target, workload) ==
    [shape |-> shape, slug |-> s1, target |-> target, cmap |-> None,
     key |-> "a", source |-> "issuer", workload |-> workload]

Patching(spec, key, source) ==
    [spec EXCEPT !.cmap = m1, !.key = key, !.source = source]

\* One client, one Secret: a ConfigMap key that is there with the certificate only,
\* and, after an edit of the profile, a workload.
MCForward == c1 :> {Patching(Untargeted(0, k1, None), "a", "saml.crt"),
                    Untargeted(1, k1, w1)}

\* Edits that move the target Secret, drop the ConfigMap and the workload.
MCRetarget == c1 :> {Patching(Untargeted(0, k1, w1), "a", "saml.crt"),
                     Untargeted(0, k2, None), Untargeted(1, k1, w1)}

\* Two clients with one Secret between them, and one ConfigMap with keys of their
\* own; edits of the first move its key, change its profile, or both.
MCShared ==
       c1 :> {Patching(Untargeted(0, k1, None), "a", "issuer"),
              Patching(Untargeted(0, k1, None), "c", "issuer"),
              Patching(Untargeted(2, k1, None), "c", "issuer")}
    @@ c2 :> {Patching(Untargeted(1, k1, None), "b", "issuer")}

\* One spec that names a Secret, a ConfigMap key and a workload.
MCSingle == c1 :> {Patching(Untargeted(0, k1, w1), "a", "issuer")}

\* One client whose target Secret is renamed, nothing else.
MCRenamed == c1 :> {Untargeted(0, k1, None), Untargeted(0, k2, None)}
=============================================================================
