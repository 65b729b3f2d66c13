----------------------------- MODULE DialogsProofs -----------------------------
(***************************************************************************)
(* Proofs about Dialogs: for any devices, blocks, passwords and number of  *)
(* openings, and any faults.                                               *)
(***************************************************************************)
EXTENDS Dialogs, TLAPS

-----------------------------------------------------------------------------
(* The invariant.                                                          *)

Answers == [alg : {"none", "AES-256-CBC", "XOR-SHA256"}, key : Passwords \union {NoKey},
            content : Bodies]

RequestTypes == [number : Nat, item : Items, plain : BOOLEAN, at : {"sent", "answered"},
                 answer : Answers]

\* TypeOK, with requests and functions as a whole.
Types ==
  /\ password \in Passwords /\ key \in Passwords \union {NoKey}
  /\ asset \in [Devices -> 0..MaxAssets]
  /\ keyFetch.at = "answered" => keyFetch.key \in Passwords
  /\ visible \in Dialogs \union {"none"}
  /\ dialog \in [Dialogs -> [title : Items \union {"none"}, since : 0..MaxAssets,
                             crossed : BOOLEAN]]
  /\ body \in [Dialogs -> Bodies]
  /\ requests \subseteq RequestTypes
  /\ opened \in 0..MaxOpened

\* What is on its way to dialog k is about its title, and no older than its opening.
OnItsWay(k) ==
  \A q \in requests : DialogOf(q.item) = k =>
    /\ q.item = dialog[k].title
    /\ Version(q.item) >= dialog[k].since
    /\ q.answer.content.text = "data" =>
         q.answer.content.item = q.item /\ q.answer.content.version >= dialog[k].since

\* This holds unless an earlier opening left a request behind.
RequestsAreItsOwn == \A k \in Dialogs : ~dialog[k].crossed => OnItsWay(k)

IInv == Types /\ RequestsAreItsOwn /\ ShowsItsOwn

-----------------------------------------------------------------------------
(* Types.                                                                  *)

LEMMA BodyTypes ==
  /\ \A text \in {"none", "loading", "failed"} :
       Message(text) \in Bodies /\ Message(text).text = text
  /\ \A i \in Items, v \in 0..MaxAssets : Data(i, v) \in Bodies
  /\ \A i, v : Data(i, v).item = i /\ Data(i, v).version = v
BY DEF Bodies, Message, Data

\* The answer to a failed request carries no data.
LEMMA FailureType == Failure \in Answers /\ Failure.content.text # "data"
BY BodyTypes DEF Failure, Plain, Answers

LEMMA VersionType ==
  ASSUME Types, NEW i \in Items
  PROVE  Version(i) \in 0..MaxAssets
BY BoundsAssumption DEF Types, Version, Items

\* A request, and what becomes of it.
LEMMA RequestType ==
  ASSUME NEW q \in RequestTypes, NEW a \in Answers, NEW s \in {"sent", "answered"},
         NEW p \in BOOLEAN
  PROVE  /\ q.item \in Items /\ DialogOf(q.item) \in Dialogs /\ q.answer.content \in Bodies
         /\ [q EXCEPT !.at = s, !.plain = p, !.answer = a] \in RequestTypes
         /\ [q EXCEPT !.at = s, !.answer = a] \in RequestTypes
BY DEF RequestTypes, Answers, DialogOf, Dialogs

\* What the server answers is about the item, and up to date.
LEMMA AnswerType ==
  ASSUME Types, NEW q \in RequestTypes
  PROVE  /\ AnswerTo(q) \in Answers
         /\ AnswerTo(q).content = Data(q.item, Version(q.item))
<1> DEFINE data == Data(q.item, Version(q.item))
<1>1. q.item \in Items /\ q.plain \in BOOLEAN
  BY DEF RequestTypes
<1>2. data \in Bodies
  BY <1>1, VersionType, BodyTypes
<1>3. AnswerTo(q) = IF q.item \in Devices /\ ~q.plain THEN Encrypt(data) ELSE Plain(data)
  BY <1>1 DEF AnswerTo, DeviceFru, BlockDetail
<1> HIDE DEF data
<1>4. Encrypt(data) \in Answers /\ Encrypt(data).content = data
  BY <1>2 DEF Types, Encrypt, XorEncrypt, Ciphertext, Answers
<1>5. Plain(data) \in Answers /\ Plain(data).content = data
  BY <1>2 DEF Plain, Answers
<1>6. AnswerTo(q) \in Answers /\ AnswerTo(q).content = data
  BY <1>3, <1>4, <1>5
<1> QED
  BY <1>6 DEF data

\* TypeOK follows.
LEMMA TypesSuffice == Types => TypeOK
<1> SUFFICES ASSUME Types PROVE TypeOK
  OBVIOUS
<1>1. ASSUME NEW k \in Dialogs
      PROVE  /\ dialog[k].title \in Items \union {"none"} /\ dialog[k].since \in 0..MaxAssets
             /\ body[k] \in Bodies
  BY DEF Types
<1>2. ASSUME NEW q \in requests
      PROVE  q.item \in Items /\ q.at \in {"sent", "answered"} /\ q.answer.content \in Bodies
  BY DEF Types, RequestTypes, Answers
<1> QED
  BY <1>1, <1>2 DEF Types, TypeOK

-----------------------------------------------------------------------------
(* The steps.                                                              *)

LEMMA InitIInv == Init => IInv
<1> SUFFICES ASSUME Init PROVE IInv
  OBVIOUS
<1>1. Message("none") \in Bodies /\ Message("none").text = "none"
  BY BodyTypes
<1>2. 0 \in 0..MaxAssets /\ 0 \in 0..MaxOpened
  BY BoundsAssumption
<1>3. asset \in [Devices -> 0..MaxAssets] /\ body \in [Dialogs -> Bodies]
  BY <1>1, <1>2 DEF Init
<1>4. dialog \in [Dialogs -> [title : Items \union {"none"}, since : 0..MaxAssets,
                              crossed : BOOLEAN]]
  BY <1>2 DEF Init
<1>5. Types
  BY <1>2, <1>3, <1>4 DEF Init, Types
<1>6. RequestsAreItsOwn /\ ShowsItsOwn
  BY <1>1 DEF Init, RequestsAreItsOwn, OnItsWay, ShowsItsOwn
<1> QED
  BY <1>5, <1>6 DEF IInv

\* A request takes another turn: it fails, is asked again or is answered.
LEMMA ReplaceRequest ==
  ASSUME IInv, NEW q \in requests, NEW r \in RequestTypes, r.item = q.item,
         r.answer.content.text = "data" =>
           r.answer.content.item = q.item /\ r.answer.content.version = Version(q.item),
         requests' = (requests \ {q}) \union {r},
         UNCHANGED <<serverVars, keyVars, visible, dialog, body, opened>>
  PROVE  IInv'
<1>1. Types /\ RequestsAreItsOwn /\ ShowsItsOwn
  BY DEF IInv
<1>2. UNCHANGED <<password, library, asset, keyFetch, key, visible, dialog, body, opened>>
  BY DEF serverVars, keyVars
<1>3. Types'
  BY <1>1, <1>2 DEF Types
<1>4. ASSUME NEW k \in Dialogs, ~dialog'[k].crossed, NEW p \in requests', DialogOf(p.item) = k
      PROVE  /\ p.item = dialog'[k].title
             /\ Version(p.item)' >= dialog'[k].since
             /\ p.answer.content.text = "data" =>
                  p.answer.content.item = p.item /\ p.answer.content.version >= dialog'[k].since
  <2>1. OnItsWay(k)
    BY <1>1, <1>2, <1>4 DEF RequestsAreItsOwn
  <2>2. Version(p.item)' = Version(p.item)
    BY <1>2 DEF Version
  <2>3. CASE p = r
    BY <1>2, <1>4, <2>1, <2>2, <2>3 DEF OnItsWay
  <2>4. CASE p # r
    BY <1>2, <1>4, <2>1, <2>2, <2>4 DEF OnItsWay
  <2> QED
    BY <2>3, <2>4
<1>5. RequestsAreItsOwn'
  BY <1>4 DEF RequestsAreItsOwn, OnItsWay
<1>6. ShowsItsOwn'
  BY <1>1, <1>2 DEF ShowsItsOwn
<1> QED
  BY <1>3, <1>5, <1>6 DEF IInv

LEMMA ServeIInv ==
  ASSUME IInv, NEW q \in requests, Serve(q)
  PROVE  IInv'
<1> DEFINE r == [q EXCEPT !.at = "answered", !.answer = AnswerTo(q)]
<1>1. Types /\ q \in RequestTypes
  BY DEF IInv, Types
<1>2. AnswerTo(q) \in Answers /\ AnswerTo(q).content = Data(q.item, Version(q.item))
  BY <1>1, AnswerType
<1>3. r \in RequestTypes
  BY <1>1, <1>2, RequestType
<1>4. r.item = q.item /\ r.answer = AnswerTo(q)
  BY <1>1 DEF RequestTypes
<1>5. requests' = (requests \ {q}) \union {r}
      /\ UNCHANGED <<serverVars, keyVars, visible, dialog, body, opened>>
  BY DEF Serve
<1> HIDE DEF r
<1> QED
  BY <1>2, <1>3, <1>4, <1>5, BodyTypes, ReplaceRequest

\* A lost answer, or one that cannot be decrypted, leaves no data behind.
LEMMA RetryIInv ==
  ASSUME IInv, NEW q \in requests, AskAgain(q) \/ Lose(q)
  PROVE  IInv'
<1>1. q \in RequestTypes
  BY DEF IInv, Types
<1>2. PICK r \in RequestTypes :
        /\ r.item = q.item /\ r.answer = Failure
        /\ requests' = (requests \ {q}) \union {r}
  <2>1. CASE AskAgain(q)
    <3> DEFINE r == [q EXCEPT !.at = "sent", !.plain = TRUE, !.answer = Failure]
    <3>1. r \in RequestTypes
      BY <1>1, FailureType, RequestType
    <3>2. r.item = q.item /\ r.answer = Failure
      BY <1>1 DEF RequestTypes
    <3> QED
      BY <2>1, <3>1, <3>2 DEF AskAgain
  <2>2. CASE Lose(q)
    <3> DEFINE r == [q EXCEPT !.at = "answered", !.answer = Failure]
    <3>1. r \in RequestTypes
      BY <1>1, FailureType, RequestType
    <3>2. r.item = q.item /\ r.answer = Failure
      BY <1>1 DEF RequestTypes
    <3> QED
      BY <2>2, <3>1, <3>2 DEF Lose
  <2> QED
    BY <2>1, <2>2
<1>3. UNCHANGED <<serverVars, keyVars, visible, dialog, body, opened>>
  BY DEF AskAgain, Lose
<1> QED
  BY <1>2, <1>3, FailureType, ReplaceRequest

\* A dialog shows what was on its way to it.
LEMMA ShowIInv ==
  ASSUME IInv, NEW q \in requests, Show(q)
  PROVE  IInv'
<1>1. Types /\ RequestsAreItsOwn /\ ShowsItsOwn /\ q \in RequestTypes
  BY DEF IInv, Types
<1> DEFINE k == DialogOf(q.item)
           content == q.answer.content
<1>2. /\ body' = [body EXCEPT ![k] = content] /\ requests' = requests \ {q}
      /\ UNCHANGED <<password, library, asset, keyFetch, key, visible, dialog, opened>>
  BY DEF Show, serverVars, keyVars
<1>3. k \in Dialogs /\ content \in Bodies
  BY <1>1, FailureType, RequestType
<1>4. body' \in [Dialogs -> Bodies] /\ body'[k] = content
      /\ \A l \in Dialogs : l # k => body'[l] = body[l]
  <2> HIDE DEF k, content
  <2> QED
    BY <1>1, <1>2, <1>3 DEF Types
<1>5. Types'
  BY <1>1, <1>2, <1>4 DEF Types
<1>6. RequestsAreItsOwn'
  BY <1>1, <1>2 DEF RequestsAreItsOwn, OnItsWay, Version
<1>7. ASSUME ~dialog[k].crossed, content.text = "data"
      PROVE  content.item = dialog[k].title /\ content.version >= dialog[k].since
  BY <1>1, <1>3, <1>7 DEF RequestsAreItsOwn, OnItsWay
<1> HIDE DEF k, content
<1>8. ShowsItsOwn'
  BY <1>1, <1>2, <1>4, <1>7 DEF ShowsItsOwn
<1> QED
  BY <1>5, <1>6, <1>8 DEF IInv

\* Opening a dialog while nothing is on its way to it leaves one request, its own.
LEMMA OpenIInv ==
  ASSUME IInv, NEW item \in Items, Open(item)
  PROVE  IInv'
<1>1. Types /\ RequestsAreItsOwn /\ ShowsItsOwn
  BY DEF IInv
<1> DEFINE k == DialogOf(item)
           d == [title |-> item, since |-> Version(item),
                 crossed |-> \E q \in requests : DialogOf(q.item) = k]
           r == [number |-> opened', item |-> item, plain |-> FALSE, at |-> "sent",
                 answer |-> Failure]
<1>2. /\ opened < MaxOpened /\ visible' = k /\ opened' = opened + 1
      /\ dialog' = [dialog EXCEPT ![k] = d]
      /\ body' = [body EXCEPT ![k] = Message("loading")]
      /\ requests' = requests \union {r}
      /\ UNCHANGED <<password, library, asset, keyFetch, key>>
  BY DEF Open, Fetch, serverVars, keyVars
<1>3. k \in Dialogs
  BY DEF DialogOf, Dialogs
<1>4. opened' \in 0..MaxOpened
  BY <1>1, <1>2, BoundsAssumption DEF Types
<1>5. Version(item) \in 0..MaxAssets
  BY <1>1, VersionType
<1>6. d \in [title : Items \union {"none"}, since : 0..MaxAssets, crossed : BOOLEAN]
      /\ d.title = item /\ d.since = Version(item)
      /\ d.crossed = \E q \in requests : DialogOf(q.item) = k
  BY <1>5
<1>7. r \in RequestTypes /\ r.item = item /\ r.answer = Failure
  BY <1>4, FailureType DEF RequestTypes
<1> HIDE DEF d, r, k
<1>8. /\ dialog' \in [Dialogs -> [title : Items \union {"none"}, since : 0..MaxAssets,
                                  crossed : BOOLEAN]]
      /\ dialog'[k] = d /\ \A l \in Dialogs : l # k => dialog'[l] = dialog[l]
  BY <1>1, <1>2, <1>3, <1>6 DEF Types
<1>9. /\ body' \in [Dialogs -> Bodies]
      /\ body'[k].text = "loading" /\ \A l \in Dialogs : l # k => body'[l] = body[l]
  BY <1>1, <1>2, <1>3, BodyTypes DEF Types
<1>10. Types'
  BY <1>1, <1>2, <1>3, <1>4, <1>7, <1>8, <1>9 DEF Types
<1>11. ASSUME NEW l \in Dialogs, ~dialog'[l].crossed, NEW p \in requests', DialogOf(p.item) = l
       PROVE  /\ p.item = dialog'[l].title
              /\ Version(p.item)' >= dialog'[l].since
              /\ p.answer.content.text = "data" =>
                   p.answer.content.item = p.item /\ p.answer.content.version >= dialog'[l].since
  <2>1. Version(p.item)' = Version(p.item)
    BY <1>2 DEF Version
  <2>2. CASE l = k
    <3>1. p = r
      BY <1>2, <1>6, <1>8, <1>11, <2>2
    <3> QED
      BY <1>5, <1>6, <1>7, <1>8, <2>1, <2>2, <3>1, FailureType
  <2>3. CASE l # k
    <3>1. p \in requests
      BY <1>2, <1>7, <1>11, <2>3 DEF k
    <3>2. OnItsWay(l)
      BY <1>1, <1>8, <1>11, <2>3 DEF RequestsAreItsOwn
    <3> QED
      BY <1>8, <1>11, <2>1, <2>3, <3>1, <3>2 DEF OnItsWay
  <2> QED
    BY <2>2, <2>3
<1>12. RequestsAreItsOwn'
  BY <1>11 DEF RequestsAreItsOwn, OnItsWay
<1>13. ShowsItsOwn'
  BY <1>1, <1>8, <1>9 DEF ShowsItsOwn
<1> QED
  BY <1>10, <1>12, <1>13 DEF IInv

\* A newer asset is no older than any opening.
LEMMA AddAssetIInv ==
  ASSUME IInv, NEW d \in Devices, AddAsset(d)
  PROVE  IInv'
<1>1. Types /\ RequestsAreItsOwn /\ ShowsItsOwn
  BY DEF IInv
<1>2. /\ asset[d] < MaxAssets /\ asset' = [asset EXCEPT ![d] = @ + 1]
      /\ UNCHANGED <<password, library, keyFetch, key, visible, dialog, body, requests, opened>>
  BY DEF AddAsset, keyVars
<1>3. /\ asset' \in [Devices -> 0..MaxAssets]
      /\ \A e \in Devices : asset[e] \in Nat /\ asset'[e] \in Nat /\ asset'[e] >= asset[e]
  BY <1>1, <1>2, BoundsAssumption DEF Types
<1>4. Types'
  BY <1>1, <1>2, <1>3 DEF Types
<1>5. ASSUME NEW k \in Dialogs, OnItsWay(k)
      PROVE  OnItsWay(k)'
  <2>1. ASSUME NEW q \in requests, DialogOf(q.item) = k
        PROVE  Version(q.item)' >= dialog[k].since
    <3>1. Version(q.item) \in Nat /\ Version(q.item)' \in Nat
          /\ Version(q.item)' >= Version(q.item)
      BY <1>3 DEF Version
    <3>2. dialog[k].since \in 0..MaxAssets
      BY <1>1 DEF Types
    <3>3. Version(q.item) >= dialog[k].since
      BY <1>5, <2>1 DEF OnItsWay
    <3> QED
      BY <3>1, <3>2, <3>3, BoundsAssumption
  <2> QED
    BY <1>2, <1>5, <2>1 DEF OnItsWay
<1>6. RequestsAreItsOwn'
  BY <1>1, <1>2, <1>5 DEF RequestsAreItsOwn
<1>7. ShowsItsOwn'
  BY <1>1, <1>2 DEF ShowsItsOwn
<1> QED
  BY <1>4, <1>6, <1>7 DEF IInv

\* What the server had not answered before a restart fails.
LEMMA RestartIInv ==
  ASSUME IInv, Restart
  PROVE  IInv'
<1>1. Types /\ RequestsAreItsOwn /\ ShowsItsOwn
  BY DEF IInv
<1> DEFINE After(q) == IF q.at = "sent" THEN [q EXCEPT !.at = "answered", !.answer = Failure] ELSE q
<1>2. /\ password' \in Passwords /\ requests' = {After(q) : q \in requests}
      /\ keyFetch' = IF keyFetch.at = "sent" THEN [at |-> "done"] ELSE keyFetch
      /\ UNCHANGED <<library, asset, key, visible, dialog, body, opened>>
  BY DEF Restart
<1>3. ASSUME NEW q \in requests
      PROVE  /\ After(q) \in RequestTypes /\ After(q).item = q.item
             /\ After(q).answer = q.answer \/ After(q).answer = Failure
  <2>1. q \in RequestTypes
    BY <1>1 DEF Types
  <2>2. [q EXCEPT !.at = "answered", !.answer = Failure] \in RequestTypes
    BY <2>1, FailureType, RequestType
  <2> QED
    BY <2>1, <2>2 DEF RequestTypes
<1> HIDE DEF After
<1>4. keyFetch'.at = "answered" => keyFetch'.key \in Passwords
  BY <1>1, <1>2 DEF Types
<1>5. Types'
  BY <1>1, <1>2, <1>3, <1>4 DEF Types
<1>6. ASSUME NEW k \in Dialogs, OnItsWay(k)
      PROVE  OnItsWay(k)'
  <2>1. ASSUME NEW q \in requests, DialogOf(After(q).item) = k
        PROVE  /\ After(q).item = dialog[k].title
               /\ Version(After(q).item)' >= dialog[k].since
               /\ After(q).answer.content.text = "data" =>
                    /\ After(q).answer.content.item = After(q).item
                    /\ After(q).answer.content.version >= dialog[k].since
    <3>1. Version(q.item)' = Version(q.item)
      BY <1>2 DEF Version
    <3>2. After(q).item = q.item /\ (After(q).answer = q.answer \/ After(q).answer = Failure)
      BY <1>3
    <3> QED
      BY <1>6, <2>1, <3>1, <3>2, FailureType DEF OnItsWay
  <2> QED
    BY <1>2, <2>1 DEF OnItsWay
<1>7. RequestsAreItsOwn' /\ ShowsItsOwn'
  BY <1>1, <1>2, <1>6 DEF RequestsAreItsOwn, ShowsItsOwn
<1> QED
  BY <1>5, <1>7 DEF IInv

\* Neither the key, nor closing a dialog, nor a stutter changes what is shown.
LEMMA OtherIInv ==
  ASSUME IInv, ServeKey \/ LoadKey \/ LoseKey \/ Close \/ UNCHANGED vars
  PROVE  IInv'
<1>1. Types /\ RequestsAreItsOwn /\ ShowsItsOwn
  BY DEF IInv
<1>2. UNCHANGED <<password, asset, dialog, body, requests, opened>>
  BY DEF ServeKey, LoadKey, LoseKey, Close, vars, serverVars, keyVars
<1>3. key' \in Passwords \union {NoKey} /\ (keyFetch'.at = "answered" => keyFetch'.key \in Passwords)
  BY <1>1 DEF Types, ServeKey, LoadKey, LoseKey, Close, vars, keyVars
<1>4. visible' \in Dialogs \union {"none"}
  BY <1>1 DEF Types, ServeKey, LoadKey, LoseKey, Close, vars
<1>5. Types'
  BY <1>1, <1>2, <1>3, <1>4 DEF Types
<1>6. RequestsAreItsOwn' /\ ShowsItsOwn'
  BY <1>1, <1>2 DEF RequestsAreItsOwn, OnItsWay, Version, ShowsItsOwn
<1> QED
  BY <1>5, <1>6 DEF IInv

LEMMA StepIInv == IInv /\ [Next]_vars => IInv'
<1> SUFFICES ASSUME IInv, [Next]_vars PROVE IInv'
  OBVIOUS
<1>1. ASSUME NEW q \in requests, RequestStep(q) \/ Lose(q)
      PROVE  IInv'
  BY <1>1, ServeIInv, ShowIInv, RetryIInv DEF RequestStep
<1> QED
  BY <1>1, AddAssetIInv, OpenIInv, RestartIInv, OtherIInv DEF Next

-----------------------------------------------------------------------------

\* Every reachable state is well typed: what gets into a dialog is a message or
\* data, never an answer that was not decrypted.
THEOREM TypeCorrect == Spec => []TypeOK
<1>1. IInv => TypeOK
  BY TypesSuffice DEF IInv
<1> QED
  BY <1>1, InitIInv, StepIInv, PTL DEF Spec

\* For any number of openings, requests under way and restarts with other
\* passwords: unless an earlier request for the same dialog was under way when it
\* was opened, it never shows another device or block than its title says, and
\* nothing that was out of date when it was opened.
THEOREM DialogsShowTheirOwn == Spec => []ShowsItsOwn
<1>1. IInv => ShowsItsOwn
  BY DEF IInv
<1> QED
  BY <1>1, InitIInv, StepIInv, PTL DEF Spec

=============================================================================
