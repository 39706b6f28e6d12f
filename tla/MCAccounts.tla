----------------------------- MODULE MCAccounts -----------------------------
(* The bootstrap account and one other.  The database is new, or it has an   *)
(* administrator with a password of its own, alone or with one from LDAP     *)
(* who has a second factor.  The backup gives both accounts other sources or *)
(* seeds.                                                                    *)
EXTENDS Accounts, TLC

Settled(source, secret) ==
    [New(source, "admin", FALSE) EXCEPT !.mfa = secret # NoSecret, !.secret = secret]
MCTables == {<<>>,
             "admin" :> Settled("local", NoSecret),
             "admin" :> Settled("local", NoSecret) @@ "user" :> Settled("ldap", "s1")}
MCCookies == {<<Empty, Empty>>,
              <<[Empty EXCEPT !.username = "admin"], [Empty EXCEPT !.username = "user"]>>}
MCArchive == "user" :> Settled("oidc", NoSecret) @@ "admin" :> Settled("local", "s2")
=============================================================================
