------------------------------ MODULE MCParts -------------------------------
(* A small instance of each part that shares no state with another one: a  *)
(* behaviour is one of one part, the others stay as they began.  What a     *)
(* part reaches here is therefore what it reaches alone.                    *)
EXTENDS RewardToken, GasClient, WalletKit, EventService, ReadCache

CONSTANTS a1, a2, t1, t2, c1

VARIABLE part

MCGroupOf == [e \in 1 .. MaxEvents |-> 1 + (e % 2)]

(* The rewards of a pool's page, a group's page with the transactions made *)
(* there, and two tabs that show the dashboard, one of which writes.       *)
MCScenes ==
  {[readers |-> {t1}, writers |-> {t1}, visits |-> {"rewards"},
    writes |-> {"deposit", "claim_rewards"}],
   [readers |-> {t1}, writers |-> {t1}, visits |-> {"contract"},
    writes |-> {"withdraw", "add_member", "create_pool"}],
   [readers |-> {t1, t2}, writers |-> {t1}, visits |-> {"dashboard"},
    writes |-> {"create_group"}]}

partsVars == <<part, rewardVars, gasVars, walletVars, serviceVars, cacheVars>>

(* The parts that stay begin in one of their initial states only.          *)
PartsInit ==
  /\ RewardInit /\ GasClientInit /\ WalletInit /\ ServiceInit /\ CacheInit
  /\ part \in {"rewards", "gas", "wallet", "service", "cache"}
  /\ part # "wallet" => calls[c1] # NoCall
  /\ part # "cache" => scene = CHOOSE s \in Scenes : TRUE

PartsNext ==
  \/ /\ part = "rewards" /\ RewardNext
     /\ UNCHANGED <<part, gasVars, walletVars, serviceVars, cacheVars>>
  \/ /\ part = "gas" /\ GasClientNext
     /\ UNCHANGED <<part, rewardVars, walletVars, serviceVars, cacheVars>>
  \/ /\ part = "wallet" /\ WalletNext
     /\ UNCHANGED <<part, rewardVars, gasVars, serviceVars, cacheVars>>
  \/ /\ part = "service" /\ ServiceNext
     /\ UNCHANGED <<part, rewardVars, gasVars, walletVars, cacheVars>>
  \/ /\ part = "cache" /\ CacheNext
     /\ UNCHANGED <<part, rewardVars, gasVars, walletVars, serviceVars>>

PartsSpec == PartsInit /\ [][PartsNext]_partsVars

(* The browser's and the service's state stays well typed.                 *)
PartsTypeOK == GasClientTypeOK /\ WalletTypeOK /\ ServiceTypeOK /\ CacheTypeOK
=============================================================================
