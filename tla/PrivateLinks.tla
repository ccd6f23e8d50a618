---------------------------- MODULE PrivateLinks ----------------------------
(***************************************************************************)
(* Accounts and the links between them and private Feishu chats (pairs and *)
(* fp_links of PrivateCaseBot). A pair is made on the website, claimed by  *)
(* whoever types its code in a chat and confirmed on the website again.    *)
(* Every link is a new version; what hangs on a version dies with it.      *)
(***************************************************************************)
EXTENDS EngineView

CONSTANTS Accounts,    \* the merchant accounts
          Chats,       \* private chats, each of one Feishu user
          Loads,       \* bound: links, buttons and messages ever made, in a run
          NoChat, NoAccount

VARIABLES enabled,     \* the accounts that are not disabled
          pairs,       \* the newest pair of each account
          links        \* the links ever made; a version is an index

linkVars == <<enabled, pairs, links>>

NoPair == [state |-> "NONE", chat |-> NoChat, expired |-> FALSE]

LinksInit ==
  /\ enabled = Accounts
  /\ pairs = [a \in Accounts |-> NoPair]
  /\ links = <<>>

Active(v) == links[v].active
ActiveVersions == {v \in DOMAIN links : Active(v)}
VersionOf(a) == {v \in ActiveVersions : links[v].account = a}

-----------------------------------------------------------------------------
(* Accounts: an administrator disables and enables them.                   *)

SetDisabled(a) ==
  /\ a \in enabled /\ enabled' = enabled \ {a}
  /\ UNCHANGED <<pairs, links>>

SetEnabled(a) ==
  /\ a \notin enabled /\ enabled' = enabled \cup {a}
  /\ UNCHANGED <<pairs, links>>

(* Its merchant may be on the website: sessions of a disabled account die. *)
SignedIn(a) == a \in enabled

-----------------------------------------------------------------------------
(* Pairing.                                                                *)

CreatePair(a) ==
  /\ SignedIn(a) /\ VersionOf(a) = {}
  /\ pairs' = [pairs EXCEPT ![a] = [state |-> "PENDING", chat |-> NoChat, expired |-> FALSE]]
  /\ UNCHANGED <<enabled, links>>

(* Ten minutes pass over a pair.                                           *)
PairExpires(a) ==
  /\ pairs[a].state \in {"PENDING", "CLAIMED"} /\ ~pairs[a].expired
  /\ pairs' = [pairs EXCEPT ![a].expired = TRUE]
  /\ UNCHANGED <<enabled, links>>

(* The code of a pair is typed in a chat that has no link.                 *)
ClaimPair(a, chat) ==
  /\ pairs[a].state = "PENDING" /\ ~pairs[a].expired /\ a \in enabled
  /\ \A v \in ActiveVersions : links[v].chat # chat
  /\ pairs' = [pairs EXCEPT ![a].state = "CLAIMED", ![a].chat = chat]
  /\ UNCHANGED <<enabled, links>>

Linkable(a) ==      \* the unique indexes over active links
  /\ VersionOf(a) = {}
  /\ \A v \in ActiveVersions : links[v].chat # pairs[a].chat

ConfirmPair(a) ==
  /\ SignedIn(a) /\ pairs[a].state = "CLAIMED" /\ ~pairs[a].expired
  /\ Linkable(a)
  /\ links' = Append(links, [account |-> a, chat |-> pairs[a].chat, active |-> TRUE])
  /\ pairs' = [pairs EXCEPT ![a].state = "CONFIRMED"]
  /\ UNCHANGED enabled

Cut(a) ==
  [v \in DOMAIN links |->
     IF links[v].account = a THEN [links[v] EXCEPT !.active = FALSE] ELSE links[v]]

AccountStep ==
  \E a \in Accounts :
    \/ SetDisabled(a)
    \/ SetEnabled(a)
    \/ PairExpires(a)
=============================================================================
