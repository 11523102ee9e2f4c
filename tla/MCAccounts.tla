----------------------------- MODULE MCAccounts -----------------------------
(***************************************************************************)
(* The token account of an organisation (Wallet) and the account of a      *)
(* person (Sessions), each explored while the other is as at the start.    *)
(* Two jobs compete for a balance that does not always cover both while    *)
(* the gateway calls twice at once; two tabs share the cookies.            *)
(***************************************************************************)
EXTENDS Wallet, Sessions, TLC

CONSTANTS a, b, p1

VARIABLE part   \* the part whose behaviour this is

Two        == {a, b}
OnePayment == {p1}

(* The wallet starts with any prices; one start is enough for the sessions. *)
AccountsInit ==
    /\ WalletInit /\ SessionsInit
    /\ part \in {"wallet"} \cup {s \in {"tokens", "locks"} : price = [j \in Jobs |-> 0]}

(* A wrong password changes nothing that a refresh reads, nor a refresh    *)
(* what a login reads: the sessions without wrong passwords, and without a *)
(* refresh, are explored apart.                                            *)
AccountsNext ==
    /\ UNCHANGED part
    /\ \/ part = "wallet" /\ WalletNext /\ UNCHANGED sessionsVars
       \/ part = "tokens" /\ SessionsNext /\ UNCHANGED walletVars /\ failed' = 0
       \/ /\ part = "locks" /\ SessionsNext /\ UNCHANGED walletVars
          /\ \A p \in Tabs : call'[p].op # "refresh"

AccountsSpec == AccountsInit /\ [][AccountsNext]_<<part, walletVars, sessionsVars>>

(* The types of both; every reserve in the ledger has one end; a token is  *)
(* exchanged once and a link sets one password; and as long as no answer   *)
(* was lost, the browser keeps a token that was exchanged only while a     *)
(* refresh is under way.  (It need not be the token that was made last:    *)
(* the answers of two logins may come in either order.)                    *)
AccountsInv == /\ WalletTypeOK /\ LedgerAlternates
               /\ SessionsTypeOK /\ UsedOnce /\ CookieRenewed

Symmetry == Permutations(Two)
=============================================================================
