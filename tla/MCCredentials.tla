--------------------------- MODULE MCCredentials ---------------------------
(* The instance of Credentials that TLC checks. *)
EXTENDS Credentials, TLC

CONSTANTS a, b, c, m1, m2

\* Two browsers of one user and an application; a browser and two concurrent
\* token requests; two redeemers and the owner of an invite.
MCRoles == {(a :> "browser") @@ (b :> "browser") @@ (c :> "app"),
            (a :> "browser") @@ (b :> "app") @@ (c :> "app"),
            (a :> "invitee") @@ (b :> "invitee") @@ (c :> "inviter")}
=============================================================================
