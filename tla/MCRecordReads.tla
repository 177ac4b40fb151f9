---------------------------- MODULE MCRecordReads ----------------------------
(* Small instances of RecordReads.                                         *)
EXTENDS RecordReads

Sanad(id, chain, at) ==
  [id |-> id, chain |-> chain, owner |-> "ann", status |-> "active", at |-> at]

Transfer(id, sanad, to, status, at) ==
  [id |-> id, sanad |-> sanad, from_chain |-> "sui", to_chain |-> "aptos",
   from_owner |-> "ann", to_owner |-> to, status |-> status, at |-> at]

Seal(id, sanad, status, at) ==
  [id |-> id, chain |-> "sui", seal_type |-> "object", seal_ref |-> id,
   sanad |-> sanad, status |-> status, at |-> at]

MCSanadRows == { Sanad("s1", "sui", 1), Sanad("s2", "aptos", 2) }

MCTransferRows ==
  { Transfer("t1", "s1", "bob", "locking", 1),
    Transfer("t2", "s2", "bob", "completed", 2),
    Transfer("t3", "s1", "cyd", "initiated", 2),
    Transfer("t1", "s2", "cyd", "failed", 2) }

MCSealRows ==
  { Seal("x1", NoSanad, "available", 1), Seal("x2", "s1", "consumed", 2),
    Seal("x1", "s2", "consumed", 2) }

MCContractRows ==
  { [id |-> "c1", chain |-> "sui", contract_type |-> "bridge",
     status |-> "active", at |-> 1] }

MCEnhancedSealRows ==
  { [id |-> id, chain |-> "sui", seal_type |-> "object", sanad |-> NoSanad,
     status |-> "available"] : id \in {"e1", "e2"} }

MCTransferQuestions ==
  { NoFilter, [sanad |-> "s1"], [status |-> "pending"] }

MCSealQuestions == { NoFilter, [status |-> "available"] }

MCContractQuestions == { NoFilter }
=============================================================================
