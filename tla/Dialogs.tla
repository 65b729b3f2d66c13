-------------------------------- MODULE Dialogs --------------------------------
(***************************************************************************)
(* The two dialogs of the dashboard: one shows the hardware asset of a     *)
(* device, which the server sends encrypted with a key derived from the    *)
(* password of its configuration, the other shows a block.  The page asks  *)
(* for the key once, when it is loaded.  What it cannot decrypt it asks    *)
(* for again, to be sent in plain.                                         *)
(*                                                                         *)
(* A dialog gets its title when it is opened and its body from whichever   *)
(* answer comes last: closing it cancels nothing.  Answers may be lost,    *)
(* and the server may be started again, with another password.             *)
(*                                                                         *)
(* An asset is its version, the number of assets on the chain by then;     *)
(* how a device's newest asset is found is in Views.  Formatting is left   *)
(* out.  A ciphertext is its key and what it says.                         *)
(***************************************************************************)
EXTENDS Integers, FiniteSets

CONSTANTS
  Devices,    \* the devices with a row in the device list
  Heights,    \* the heights of the blocks with a button in the block list
  Passwords,  \* what web.password may be
  MaxAssets,  \* bound: how many assets get on the chain
  MaxOpened,  \* bound: how often a dialog is opened
  Faults      \* some of "lost" (a fetch fails), "restart" (of the server)

ASSUME BoundsAssumption == MaxAssets \in Nat /\ MaxOpened \in Nat
ASSUME FaultsAssumption == Faults \subseteq {"lost", "restart"}
ASSUME ItemsAssumption == Devices \intersect Heights = {}

VARIABLES
  password,   \* server: what its FRUCrypto was made from
  library,    \* server: is the cryptography library installed?
  asset,      \* server, per device: the version of its newest asset, 0 for none
  webCrypto,  \* browser: has it window.crypto.subtle?
  keyFetch,   \* browser: how far initCryptoKey is
  key,        \* browser: ENCRYPTION_KEY_RAW
  visible,    \* browser: the dialog that covers the page, if any
  dialog,     \* per dialog: its title, and history: what was so at its opening
  body,       \* per dialog: what it shows
  requests,   \* the requests of dialogs that are under way
  opened      \* history: how often a dialog was opened

serverVars == <<password, library, asset>>
keyVars == <<keyFetch, key, webCrypto>>
vars == <<serverVars, keyVars, visible, dialog, body, requests, opened>>

Dialogs == {"fru", "block"}
Items == Devices \union Heights
DialogOf(item) == IF item \in Devices THEN "fru" ELSE "block"

Message(text) == [text |-> text]
Data(item, version) == [text |-> "data", item |-> item, version |-> version]

NoKey == "no key"

Init ==
  /\ password \in Passwords /\ library \in BOOLEAN
  /\ asset = [d \in Devices |-> 0]
  /\ webCrypto \in BOOLEAN
  /\ keyFetch = [at |-> "sent"] /\ key = NoKey
  /\ visible = "none"
  /\ dialog = [k \in Dialogs |-> [title |-> "none", since |-> 0, crossed |-> FALSE]]
  /\ body = [k \in Dialogs |-> Message("none")]
  /\ requests = {} /\ opened = 0

-----------------------------------------------------------------------------
(* The server.                                                             *)

\* A block with a new asset of device d is appended.
AddAsset(d) ==
  /\ asset[d] < MaxAssets
  /\ asset' = [asset EXCEPT ![d] = @ + 1]
  /\ UNCHANGED <<password, library, keyVars, visible, dialog, body, requests, opened>>

Version(item) == IF item \in Devices THEN asset[item] ELSE 0

\* What FRUCrypto makes of an answer: AES, or XOR where the library is missing.
Ciphertext(alg, data) == [alg |-> alg, key |-> password, content |-> data]
XorEncrypt(data) == Ciphertext("XOR-SHA256", data)
Encrypt(data) == IF library THEN Ciphertext("AES-256-CBC", data) ELSE XorEncrypt(data)

Plain(data) == [alg |-> "none", key |-> NoKey, content |-> data]
Failure == Plain(Message("failed"))

\* api_device_fru and api_block_detail.
DeviceFru(d, plain) == LET data == Data(d, Version(d)) IN IF plain THEN Plain(data) ELSE Encrypt(data)
BlockDetail(height) == Plain(Data(height, Version(height)))

AnswerTo(q) == IF q.item \in Devices THEN DeviceFru(q.item, q.plain) ELSE BlockDetail(q.item)

Serve(q) ==
  /\ q.at = "sent"
  /\ requests' = (requests \ {q}) \union
                   {[q EXCEPT !.at = "answered", !.answer = AnswerTo(q)]}
  /\ UNCHANGED <<serverVars, keyVars, visible, dialog, body, opened>>

\* api_crypto_key.
ServeKey ==
  /\ keyFetch.at = "sent"
  /\ keyFetch' = [at |-> "answered", key |-> password]
  /\ UNCHANGED <<serverVars, key, webCrypto, visible, dialog, body, requests, opened>>

\* The server is started again; requests it had not answered fail.
Restart ==
  /\ "restart" \in Faults
  /\ password' \in Passwords
  /\ requests' = {IF q.at = "sent" THEN [q EXCEPT !.at = "answered", !.answer = Failure]
                  ELSE q : q \in requests}
  /\ keyFetch' = IF keyFetch.at = "sent" THEN [at |-> "done"] ELSE keyFetch
  /\ UNCHANGED <<library, asset, key, webCrypto, visible, dialog, body, opened>>

-----------------------------------------------------------------------------
(* The browser.                                                            *)

\* The end of initCryptoKey; it is never called again.
LoadKey ==
  /\ keyFetch.at = "answered"
  /\ key' = keyFetch.key
  /\ keyFetch' = [at |-> "done"]
  /\ UNCHANGED <<serverVars, webCrypto, visible, dialog, body, requests, opened>>

Fetch(item, plain) ==
  [number |-> opened', item |-> item, plain |-> plain, at |-> "sent", answer |-> Failure]

\* Mutant of Open: the body stays as it was until the answer is there.
OpenUncleared(item) ==
  LET k == DialogOf(item)
  IN  /\ visible = "none" /\ opened < MaxOpened
      /\ visible' = k
      /\ opened' = opened + 1
      /\ dialog' = [dialog EXCEPT ![k] =
           [title |-> item, since |-> Version(item),
            crossed |-> \E q \in requests : DialogOf(q.item) = k]]
      /\ requests' = requests \union {Fetch(item, FALSE)}
      /\ UNCHANGED <<serverVars, keyVars, body>>

\* showFruDetail and showBlockDetail.
Open(item) ==
  LET k == DialogOf(item)
  IN  /\ visible = "none" /\ opened < MaxOpened
      /\ visible' = k
      /\ opened' = opened + 1
      /\ dialog' = [dialog EXCEPT ![k] =
           [title |-> item, since |-> Version(item),
            crossed |-> \E q \in requests : DialogOf(q.item) = k]]
      /\ body' = [body EXCEPT ![k] = Message("loading")]
      /\ requests' = requests \union {Fetch(item, FALSE)}
      /\ UNCHANGED <<serverVars, keyVars>>

\* closeFruModal and closeBlockModal.
Close ==
  /\ visible # "none"
  /\ visible' = "none"
  /\ UNCHANGED <<serverVars, keyVars, dialog, body, requests, opened>>

\* decryptAesCbc succeeds; with another key, or of another cipher, what comes
\* out is not padded or is no JSON.
CanDecrypt(answer) ==
  /\ key # NoKey /\ webCrypto
  /\ answer.alg = "AES-256-CBC" /\ answer.key = key

\* Mutant of Show: the payload is rendered as it came.
ShowUndecrypted(q) ==
  /\ q.at = "answered"
  /\ body' = [body EXCEPT ![DialogOf(q.item)] =
                IF q.answer.alg = "none" THEN q.answer.content ELSE q.answer]
  /\ requests' = requests \ {q}
  /\ UNCHANGED <<serverVars, keyVars, visible, dialog, opened>>

\* The answer, or the failure, gets into the body.
Show(q) ==
  /\ q.at = "answered"
  /\ q.answer.alg = "none" \/ CanDecrypt(q.answer)
  /\ body' = [body EXCEPT ![DialogOf(q.item)] = q.answer.content]
  /\ requests' = requests \ {q}
  /\ UNCHANGED <<serverVars, keyVars, visible, dialog, opened>>

\* Mutant of AskAgain: nobody handles what cannot be decrypted.
IgnoreUndecrypted(q) ==
  /\ q.at = "answered"
  /\ q.answer.alg # "none" /\ ~CanDecrypt(q.answer)
  /\ requests' = requests \ {q}
  /\ UNCHANGED <<serverVars, keyVars, visible, dialog, body, opened>>

\* renderFruDetail cannot decrypt the answer and fetches it in plain.
AskAgain(q) ==
  /\ q.at = "answered"
  /\ q.answer.alg # "none" /\ ~CanDecrypt(q.answer)
  /\ requests' = (requests \ {q}) \union
                   {[q EXCEPT !.at = "sent", !.plain = TRUE, !.answer = Failure]}
  /\ UNCHANGED <<serverVars, keyVars, visible, dialog, body, opened>>

-----------------------------------------------------------------------------
(* The network.                                                            *)

Lose(q) ==
  /\ "lost" \in Faults
  /\ requests' = (requests \ {q}) \union
                   {[q EXCEPT !.at = "answered", !.answer = Failure]}
  /\ UNCHANGED <<serverVars, keyVars, visible, dialog, body, opened>>

LoseKey ==
  /\ "lost" \in Faults /\ keyFetch.at # "done"
  /\ keyFetch' = [at |-> "done"]
  /\ UNCHANGED <<serverVars, key, webCrypto, visible, dialog, body, requests, opened>>

-----------------------------------------------------------------------------

RequestStep(q) == Serve(q) \/ Show(q) \/ AskAgain(q)

Next ==
  \/ \E d \in Devices : AddAsset(d)
  \/ \E item \in Items : Open(item)
  \/ \E q \in requests : RequestStep(q) \/ Lose(q)
  \/ ServeKey \/ LoadKey \/ LoseKey \/ Close \/ Restart

Spec == Init /\ [][Next]_vars

\* The server answers, and the browser handles what has arrived.
FairSpec == Spec /\ WF_vars(\E q \in requests : RequestStep(q))

-----------------------------------------------------------------------------
(* Properties.                                                             *)

Bodies == [text : {"none", "loading", "failed"}]
            \union [text : {"data"}, item : Items, version : 0..MaxAssets]

TypeOK ==
  /\ password \in Passwords /\ key \in Passwords \union {NoKey}
  /\ asset \in [Devices -> 0..MaxAssets]
  /\ visible \in Dialogs \union {"none"}
  /\ \A k \in Dialogs : /\ dialog[k].title \in Items \union {"none"}
                        /\ dialog[k].since \in 0..MaxAssets
                        /\ body[k] \in Bodies
  /\ \A q \in requests : /\ q.item \in Items
                         /\ q.at \in {"sent", "answered"}
                         /\ q.answer.content \in Bodies
  /\ opened \in 0..MaxOpened

\* What a dialog shows is about the device or the block of its title, and no older
\* than when it was opened, unless a request of an earlier opening was still
\* under way by then: whatever happened to the key, and however often the answer
\* had to be asked for.
ShowsItsOwn ==
  \A k \in Dialogs :
    body[k].text = "data" /\ ~dialog[k].crossed =>
      body[k].item = dialog[k].title /\ body[k].version >= dialog[k].since

\* A dialog that is loading comes to show something, the data or an error,
\* although neither the key nor an answer need ever arrive.
EventuallyShown ==
  \A k \in Dialogs : body[k].text = "loading" ~> body[k].text # "loading"

=============================================================================
