------------------------------ MODULE WalletKit -----------------------------
(***************************************************************************)
(* The wallet of one tab: the hook that shows it (hooks/use-wallet-kit.ts), *)
(* the wallet kit it reads (lib/wallet-kit.ts, itself external) and the    *)
(* copy in local storage that a reload shows first                         *)
(* (lib/pwa/wallet-persistence.ts), which the other tabs write too.        *)
(* Mounting, syncs, connecting and disconnecting are calls under way at    *)
(* the same time, a step from one await to the next.  Of a snapshot the    *)
(* status, the address and isCached matter; its network and balance never  *)
(* change what is shown connected.                                         *)
(***************************************************************************)
EXTENDS Browser

CONSTANT Calls   (* bound: calls of the hook under way at the same time    *)

VARIABLES
  kit,         (* the import and init of the wallet kit                    *)
  account,     (* the address the kit gives, Nothing if it gives none      *)
  subscribed,  (* subscribeWalletKitEvents has returned                    *)
  calls,       (* the hook's calls under way                               *)
  shown,       (* the hook's state                                         *)
  saved,       (* talambag:wallet:v1, of all tabs                          *)
  given,       (* history: the addresses the kit has given this page       *)
  left         (* history: the user has disconnected, and since then the   *)
               (* kit has given no address                                 *)

walletVars == <<kit, account, subscribed, calls, shown, saved, given, left>>

Account == Wallets \cup {Nothing}

NoCall        == [kind |-> "none", at |-> "end", address |-> Nothing]
Mounting      == [NoCall EXCEPT !.kind = "mount", !.at = "init"]
Syncing       == [NoCall EXCEPT !.kind = "sync", !.at = "address"]
NotConnected  == [status |-> "disconnected", address |-> Nothing, cached |-> FALSE]
Connected(w)  == [status |-> "connected", address |-> w, cached |-> FALSE]
Unsaved       == [address |-> Nothing, old |-> FALSE]

Busy == \E c \in Calls : calls[c].kind \in {"connect", "disconnect"}

(* useEffect: the saved copy, if it is not older than twelve hours, is     *)
(* shown at once, as a copy; then the kit is loaded and subscribed to.     *)
Mounted(copy) ==
  /\ saved' = IF copy.old THEN Unsaved ELSE copy
  /\ shown' = IF saved'.address = Nothing THEN NotConnected
              ELSE [Connected(copy.address) EXCEPT !.cached = TRUE]
  /\ kit' = "loading" /\ subscribed' = FALSE /\ given' = {} /\ left' = FALSE
  /\ \E first \in Calls : calls' = [c \in Calls |-> IF c = first THEN Mounting ELSE NoCall]

WalletInit ==
  /\ saved = Unsaved /\ shown = NotConnected
  /\ kit = "loading" /\ account = Nothing /\ subscribed = FALSE /\ given = {} /\ left = FALSE
  /\ \E first \in Calls : calls = [c \in Calls |-> IF c = first THEN Mounting ELSE NoCall]

(* The kit emits STATE_UPDATED or WALLET_SELECTED: a sync starts beside    *)
(* whatever is under way.                                                  *)
WithSync(others) ==
  \/ calls' = others
  \/ /\ subscribed
     /\ \E c \in Calls : others[c] = NoCall /\ calls' = [others EXCEPT ![c] = Syncing]

With(c, call) == [calls EXCEPT ![c] = call]
-----------------------------------------------------------------------------
(* A failed import is kept by walletKitRuntimePromise: it stays failed.    *)
(* The kit keeps its account in a storage of its own.                      *)
KitLoads ==
  /\ kit = "loading"
  /\ kit' \in {"ready", "broken"}
  /\ account' \in Account
  /\ UNCHANGED <<subscribed, calls, shown, saved, given, left>>

(* The wallet's user changes its account, or the kit emits for another     *)
(* reason.                                                                 *)
KitUpdates ==
  /\ kit = "ready"
  /\ account' \in Account
  /\ left' = (left /\ account' = Nothing)
  /\ WithSync(calls)
  /\ UNCHANGED <<kit, subscribed, shown, saved, given>>

(* DISCONNECT, as the hook's onDisconnect handles it.                      *)
Cleared ==
  IF subscribed THEN saved' = Unsaved /\ shown' = NotConnected
                ELSE UNCHANGED <<saved, shown>>

KitDisconnects ==
  /\ kit = "ready"
  /\ account' = Nothing
  /\ Cleared
  /\ UNCHANGED <<kit, subscribed, calls, given, left>>

(* setupWalletKit: it subscribes and goes on to a sync; without the kit it *)
(* ends, and the saved copy stays shown.                                   *)
MountEnds(c) ==
  /\ calls[c] = Mounting /\ kit # "loading"
  /\ subscribed' = (kit = "ready")
  /\ calls' = With(c, IF kit = "ready" THEN Syncing ELSE NoCall)
  /\ UNCHANGED <<kit, account, shown, saved, given, left>>
-----------------------------------------------------------------------------
(* The connect button: shown unless a wallet is, disabled while busy.      *)
Connect(c) ==
  /\ shown.status = "disconnected" /\ ~Busy /\ calls[c] = NoCall
  /\ shown' = [shown EXCEPT !.status = "connecting"]
  /\ calls' = With(c, [NoCall EXCEPT !.kind = "connect", !.at = "init"])
  /\ UNCHANGED <<kit, account, subscribed, saved, given, left>>

ModalOpens(c) ==
  /\ calls[c].kind = "connect" /\ calls[c].at = "init" /\ kit = "ready"
  /\ calls' = With(c, [calls[c] EXCEPT !.at = "modal"])
  /\ UNCHANGED <<kit, account, subscribed, shown, saved, given, left>>

ModalCloses(c) ==
  /\ calls[c].at = "modal"
  /\ account' \in Wallets
  /\ left' = FALSE
  /\ WithSync(With(c, [calls[c] EXCEPT !.at = "address"]))
  /\ UNCHANGED <<kit, subscribed, shown, saved, given>>

(* A cancellation shows no wallet and leaves the saved copy.               *)
ConnectCancelled(c) ==
  /\ calls[c].at = "modal"
  /\ shown' = NotConnected
  /\ calls' = With(c, NoCall)
  /\ UNCHANGED <<kit, account, subscribed, saved, given, left>>

ConnectFails(c) ==
  /\ calls[c].at = "modal" \/ (calls[c].kind = "connect" /\ calls[c].at = "init" /\ kit = "broken")
  /\ shown' = NotConnected /\ saved' = Unsaved
  /\ calls' = With(c, NoCall)
  /\ UNCHANGED <<kit, account, subscribed, given, left>>
-----------------------------------------------------------------------------
(* persistWalletSnapshot, then setWallet.                                  *)
Publish(c, address) ==
  /\ shown' = IF address = Nothing THEN NotConnected ELSE Connected(address)
  /\ saved' = IF address = Nothing THEN Unsaved ELSE [address |-> address, old |-> FALSE]
  /\ calls' = With(c, NoCall)

(* readWalletSnapshot: the address first; getAddress may fail.  Without    *)
(* one nothing more is read.                                               *)
NoAddress(c) ==
  /\ calls[c].at = "address"
  /\ Publish(c, Nothing)
  /\ UNCHANGED <<kit, account, subscribed, given, left>>

ReadAddress(c) ==
  /\ calls[c].at = "address" /\ account # Nothing
  /\ calls' = With(c, [calls[c] EXCEPT !.at = "network", !.address = account])
  /\ given' = given \cup {account}
  /\ UNCHANGED <<kit, account, subscribed, shown, saved, left>>

(* Network and balance have been read, or have failed.                     *)
SnapshotRead(c) ==
  /\ calls[c].at = "network"
  /\ Publish(c, calls[c].address)
  /\ UNCHANGED <<kit, account, subscribed, given, left>>
-----------------------------------------------------------------------------
(* The disconnect button: shown with a wallet, disabled while busy.        *)
Disconnect(c) ==
  /\ shown.status = "connected" /\ ~Busy /\ calls[c] = NoCall
  /\ calls' = With(c, [NoCall EXCEPT !.kind = "disconnect", !.at = "init"])
  /\ UNCHANGED <<kit, account, subscribed, shown, saved, given, left>>

(* StellarWalletsKit.disconnect emits DISCONNECT before it returns.        *)
KitLeaves(c) ==
  /\ calls[c].kind = "disconnect" /\ calls[c].at = "init" /\ kit = "ready"
  /\ account' = Nothing
  /\ Cleared
  /\ WithSync(With(c, [calls[c] EXCEPT !.at = "leaving"]))
  /\ UNCHANGED <<kit, subscribed, given, left>>

(* Mutant of Left: what is shown is left to the DISCONNECT event.          *)
LeftToTheEvent == saved' = Unsaved /\ UNCHANGED shown

(* The finally block.                                                      *)
Left == shown' = NotConnected /\ saved' = Unsaved

(* A call that has its address by now will show it even so.                *)
DisconnectEnds(c) ==
  /\ calls[c].at = "leaving" \/ kit = "broken"
  /\ calls[c].kind = "disconnect"
  /\ Left
  /\ calls' = With(c, NoCall)
  /\ left' = (/\ account = Nothing \/ kit = "broken"
              /\ \A x \in Calls : calls[x].at # "network")
  /\ UNCHANGED <<kit, account, subscribed, given>>
-----------------------------------------------------------------------------
Ages ==
  /\ saved.address # Nothing
  /\ saved' = [saved EXCEPT !.old = TRUE]
  /\ UNCHANGED <<kit, account, subscribed, calls, shown, given, left>>

(* Another tab connects a wallet or none, or clears the copy; no tab       *)
(* listens for it.                                                         *)
OtherTab ==
  /\ saved' \in {Unsaved} \cup {[address |-> w, old |-> FALSE] : w \in Wallets}
  /\ UNCHANGED <<kit, account, subscribed, calls, shown, given, left>>

Reload == Mounted(saved) /\ UNCHANGED account

WalletNext ==
  \/ KitLoads \/ KitUpdates \/ KitDisconnects \/ Ages \/ OtherTab \/ Reload
  \/ \E c \in Calls :
       \/ MountEnds(c)
       \/ Connect(c) \/ ModalOpens(c) \/ ModalCloses(c)
       \/ ConnectCancelled(c) \/ ConnectFails(c)
       \/ NoAddress(c) \/ ReadAddress(c) \/ SnapshotRead(c)
       \/ Disconnect(c) \/ KitLeaves(c) \/ DisconnectEnds(c)

WalletSpec == WalletInit /\ [][WalletNext]_walletVars
-----------------------------------------------------------------------------
WalletTypeOK ==
  /\ kit \in {"loading", "ready", "broken"}
  /\ account \in Account /\ subscribed \in BOOLEAN
  /\ given \subseteq Wallets /\ left \in BOOLEAN
  /\ calls \in [Calls ->
       [kind : {"none", "mount", "sync", "connect", "disconnect"},
        at : {"end", "init", "modal", "address", "network", "leaving"}, address : Account]]
  /\ shown \in [status : {"disconnected", "connecting", "connected"},
                address : Account, cached : BOOLEAN]
  /\ saved \in [address : Account, old : BOOLEAN]

(***************************************************************************)
(* The page acts only for a wallet that is its user's, whatever calls      *)
(* overlap and whatever other tabs save.  A wallet shown and not marked as *)
(* a copy (isCached, without which page.tsx offers no writes) is one the   *)
(* kit has given this page; a copy is shown no longer than until the kit   *)
(* has answered; and once the user has disconnected, no call still under   *)
(* way and no late event brings a wallet back, unless it had the address   *)
(* before (useWalletKit, persistWalletSnapshot, disconnectWallet).         *)
(***************************************************************************)
OwnWalletShown ==
  /\ shown.status = "connected" /\ ~shown.cached => shown.address \in given
  /\ shown.cached =>
       kit # "ready" \/ \E c \in Calls : calls[c].kind \in {"mount", "sync"}
  /\ left => shown.address = Nothing
=============================================================================
