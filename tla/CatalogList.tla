------------------------------ MODULE CatalogList ------------------------------
(***************************************************************************)
(* How a client gets its list of models: gateway.rs (handle),              *)
(* catalog_proxy.rs and catalog_snapshot.rs of crates/runtime.  The gateway *)
(* fetches the list of the native service and appends the models of the    *)
(* web; a client that has a list sends its tag and is told when it is      *)
(* still the one.  While no list is offered the request goes to the native *)
(* service as it is.                                                       *)
(*                                                                         *)
(* Meanwhile the provider is restored, qualified and lost, the user signs  *)
(* in, the client changes accounts and the service changes its lists.      *)
(***************************************************************************)
EXTENDS Naturals

CONSTANTS Accounts,    \* accounts of the native service
          MaxVersions  \* bound: versions of an account's list

ASSUME CatalogAssumption == Accounts # {} /\ MaxVersions \in Nat

VARIABLES web,      \* what the provider offers: its stage, the list and its generation
          admitting, maintaining,   \* of the gateway: web work may start; one is exclusive
          natives,  \* the version of each account's list
          reader,   \* a client program: its encoding and account, its list and the tag of it
          asking    \* its request, or the last one

catalogVars == <<web, admitting, maintaining, natives, reader, asking>>
gateway == <<admitting, maintaining>>

\* What a list holds: the native models, and the efforts of our model or "none" of it.
\* A tag of the native service names the list, one of ours what Tag says.
NoTag == [by |-> "nobody"]
NoList == [account |-> "none", version |-> 0, owned |-> "none"]
NoRequest == [stage |-> "none"]

Merge(account, version, owned) == [account |-> account, version |-> version, owned |-> owned]

NativeTag(list) == [by |-> "service", list |-> list]

\* Mutant: the tag names the snapshot and the native list, and not what was merged.
TagOfGeneration(r, list) ==
  [by |-> "gateway", account |-> r.account, codec |-> r.codec, generation |-> r.generation,
   list |-> [list EXCEPT !.owned = "none"]]

\* The hash of account, encoding, snapshot and of the merged list itself.
Tag(r, list) ==
  [by |-> "gateway", account |-> r.account, codec |-> r.codec, generation |-> r.generation,
   list |-> list]

Reviewed == reader.codec # "unknown"

CatalogInit ==
  /\ web = [stage |-> "recovering", generation |-> 1, owned |-> "one"]
  /\ admitting = TRUE /\ maintaining = FALSE
  /\ natives = [a \in Accounts |-> 0]
  /\ \E a \in Accounts, codec \in {"cli", "unknown"} :
       reader = [codec |-> codec, account |-> a, list |-> NoList, tag |-> NoTag]
  /\ asking = NoRequest
-----------------------------------------------------------------------------
(* The provider. *)

\* A lease of the gateway: of a recovery, or of a request for a list that is merged.
Leased ==
  \/ web.stage = "recovering" /\ ~maintaining
  \/ asking.stage = "sent" /\ asking.merged

\* A restored provider has a snapshot made from the receipt, always with this number.
Restore ==
  /\ web.stage = "recovering"
  /\ \/ admitting /\ web' = [web EXCEPT !.stage = "offered", !.generation = 1]
     \/ web' = [web EXCEPT !.stage = "away"]
  /\ UNCHANGED <<gateway, natives, reader, asking>>

Retry ==
  /\ web.stage = "away" /\ admitting /\ ~maintaining
  /\ web' = [web EXCEPT !.stage = "recovering"]
  /\ UNCHANGED <<gateway, natives, reader, asking>>

\* The browser is closed, for good.
Lose ==
  /\ web.stage = "offered" /\ web' = [web EXCEPT !.stage = "closed"]
  /\ UNCHANGED <<gateway, natives, reader, asking>>

Maintain ==
  /\ admitting /\ ~maintaining /\ ~Leased /\ maintaining' = TRUE
  /\ UNCHANGED <<web, admitting, natives, reader, asking>>

\* The provider with all efforts takes the place of the other.
Refresh ==
  /\ maintaining /\ web.stage = "offered"
  /\ web' = [web EXCEPT !.generation = 2, !.owned = "all"]
  /\ UNCHANGED <<gateway, natives, reader, asking>>

\* The user has to sign in: the window takes the profile, and gives it back.
OpenLogin ==
  /\ maintaining /\ web.stage \in {"offered", "away"}
  /\ web' = [web EXCEPT !.stage = "signing in"]
  /\ UNCHANGED <<gateway, natives, reader, asking>>

FinishLogin ==
  /\ maintaining /\ web.stage = "signing in"
  /\ web' = [web EXCEPT !.stage = "recovering"]
  /\ UNCHANGED <<gateway, natives, reader, asking>>

EndMaintenance ==
  /\ maintaining /\ web.stage # "recovering" /\ maintaining' = FALSE
  /\ UNCHANGED <<web, admitting, natives, reader, asking>>

StopAdmission ==
  /\ admitting /\ admitting' = FALSE
  /\ UNCHANGED <<web, maintaining, natives, reader, asking>>

Disconnect ==
  /\ ~admitting /\ ~maintaining /\ ~Leased /\ web.stage # "away"
  /\ web' = [web EXCEPT !.stage = "away"]
  /\ UNCHANGED <<gateway, natives, reader, asking>>
-----------------------------------------------------------------------------
(* The client and the native service. *)

ListChanges(a) ==
  /\ natives[a] < MaxVersions /\ natives' = [natives EXCEPT ![a] = @ + 1]
  /\ UNCHANGED <<web, gateway, reader, asking>>

\* The list of the other account stays until another one comes.
SwitchAccount(a) ==
  /\ a # reader.account /\ reader' = [reader EXCEPT !.account = a]
  /\ UNCHANGED <<web, gateway, natives, asking>>

\* What is known of a request; `held`, `recovering` and `beside` tell of the moment at
\* which it is sent.
Asked(tag, merged) ==
  [stage |-> "sent", merged |-> merged, account |-> reader.account, codec |-> reader.codec,
   tag |-> tag, generation |-> web.generation, owned |-> web.owned, answered |-> 0,
   held |-> reader.list.owned # "none",
   recovering |-> admitting /\ web.stage = "recovering", beside |-> maintaining]

Admitted == admitting /\ ~maintaining /\ Reviewed

\* Mutant: the native list is better than none.
AskForListAnyTime ==
  /\ asking.stage # "sent"
  /\ \E tag \in {NoTag, reader.tag} : asking' = Asked(tag, Admitted /\ web.stage = "offered")
  /\ UNCHANGED <<web, gateway, natives, reader>>

\* handle: with or without its tag; while the provider recovers the client is told to come
\* back (503).  A client of an unknown encoding, and any client while there is no admission
\* or nothing is offered, gets the native list.
AskForList ==
  /\ asking.stage # "sent"
  /\ \E tag \in {NoTag, reader.tag} :
       asking' = IF Admitted /\ web.stage = "recovering"
                  THEN [Asked(tag, FALSE) EXCEPT !.stage = "refused"]
                  ELSE Asked(tag, Admitted /\ web.stage = "offered")
  /\ UNCHANGED <<web, gateway, natives, reader>>

\* Mutant: the validators of the client go on to the native service, which is believed.
AnswerMergedTrusting ==
  /\ asking.stage = "sent" /\ asking.merged
  /\ LET version == natives[asking.account]
         list == Merge(asking.account, version, asking.owned)
         unchanged == asking.tag = Tag(asking, list)
                      \/ asking.tag = NativeTag(Merge(asking.account, version, "none"))
     IN /\ reader' = IF unchanged THEN reader
                     ELSE [reader EXCEPT !.list = list, !.tag = Tag(asking, list)]
        /\ asking' = [asking EXCEPT !.stage = "served", !.answered = version]
  /\ UNCHANGED <<web, gateway, natives>>

\* forward: the native list is fetched without the reader's validators, merged and
\* tagged; a client that has this tag is told so, and keeps its list.
AnswerMerged ==
  /\ asking.stage = "sent" /\ asking.merged
  /\ LET version == natives[asking.account]
         list == Merge(asking.account, version, asking.owned)
     IN /\ reader' = IF asking.tag = Tag(asking, list) THEN reader
                     ELSE [reader EXCEPT !.list = list, !.tag = Tag(asking, list)]
        /\ asking' = [asking EXCEPT !.stage = "served", !.answered = version]
  /\ UNCHANGED <<web, gateway, natives>>

\* The native service answers a client itself, and knows its own tags.
AnswerNative ==
  /\ asking.stage = "sent" /\ ~asking.merged
  /\ LET list == Merge(asking.account, natives[asking.account], "none")
     IN reader' = IF asking.tag = NativeTag(list) THEN reader
                  ELSE [reader EXCEPT !.list = list, !.tag = NativeTag(list)]
  /\ asking' = [asking EXCEPT !.stage = "served", !.answered = natives[asking.account]]
  /\ UNCHANGED <<web, gateway, natives>>

\* No answer, an answer that is not a list or cannot be extended, or one that the service
\* calls unchanged although it was not asked: an error, and the client keeps its list.
AnswerFails ==
  /\ asking.stage = "sent" /\ asking' = [asking EXCEPT !.stage = "refused"]
  /\ UNCHANGED <<web, gateway, natives, reader>>
-----------------------------------------------------------------------------
CatalogNext ==
  \/ Restore \/ Retry \/ Lose \/ Maintain \/ Refresh \/ OpenLogin \/ FinishLogin
  \/ EndMaintenance \/ StopAdmission \/ Disconnect
  \/ \E a \in Accounts : ListChanges(a) \/ SwitchAccount(a)
  \/ AskForList \/ AnswerMerged \/ AnswerNative \/ AnswerFails

CatalogSpec == CatalogInit /\ [][CatalogNext]_catalogVars
-----------------------------------------------------------------------------
(* Properties. *)

\* A client that asks while the provider recovers, and gets the native list for it.
LosesModels ==
  /\ asking.stage = "served" /\ asking.recovering /\ asking.codec # "unknown"
  /\ asking.held /\ reader.list.owned = "none"

\* Whatever the client kept and was told, a successful answer of the gateway leaves it
\* with the native list of the account that asked, as it was when the service answered,
\* and with what was offered when it asked.  A client that asks while the provider
\* recovers keeps our models, unless the recovery is part of a maintenance.
ListIsCurrent ==
  /\ asking.stage = "served" /\ asking.merged =>
       reader.list = Merge(asking.account, asking.answered, asking.owned)
  /\ LosesModels => asking.beside

\* implementation/STATUS.md:1468-1471: "Reviewed-client model requests during browser
\* recovery now return HTTP 503 [...] They no longer return a successful native-only
\* snapshot that can replace the reader's merged catalog".  It is violated by the recovery
\* that ends a sign-in: that one is a maintenance, and a request that gets no lease goes on
\* to the native service.
RecoveryHidesNoModels == ~LosesModels
=============================================================================
