--------------------------- MODULE E2mDbFixtures ---------------------------
(***************************************************************************)
(* The Redis test-database fixtures of                                     *)
(* src/setup/e2mgr/Automation/Tests/Scripts: seeders (cleanup_db.flush,    *)
(* getnodes.add, populate_e2t_instances_..., loadscripts.add,              *)
(* set_general_config_resource_status_false) and the verify functions a    *)
(* test calls after them, run by one sequential test driver against a      *)
(* store that the E2 manager and the resource status manager under test    *)
(* write concurrently.                                                     *)
(*                                                                         *)
(* Every Redis command is atomic.  A fixture that issues several commands  *)
(* is one action per command where another client can observe the gap.    *)
(* Stored JSON documents are abstracted to records of the fields the       *)
(* verify functions read; a value that reaches Python as bytes (a client   *)
(* without decode_responses) is tagged [bytes |-> v], a str literal        *)
(* [str |-> v], so that their comparison is Python's: never equal.         *)
(***************************************************************************)
EXTENDS Integers, Sequences, SequencesExt, FiniteSets

CONSTANTS
  Absent,       \* a key with no value
  None,         \* Python's None
  Raise,        \* the call raised (TypeError, AttributeError, KeyError)
  WriterKeys,   \* the keys the components under test write
  MaxCalls,     \* bound on the fixture calls of one test run
  MaxWrites     \* bound on the writes of the components under test

Local == "10.0.2.15:38000"
Att0  == "e2t.att.com:38000"
Att1  == "e2t.att.com:38001"
Addrs == {Local, Att0, Att1}
Rans  == {"test1", "test2", "test3"}

AddressesKey == "{e2Manager},E2TAddresses"
InstanceKey(a) == "{e2Manager},E2TInstance:" \o a
\* getnodes.add lines 38-57: the nodeb, RAN, PCI, cell keys and two sets.
NodebKeys == {"{e2Manager},ENB:02f829:007a80", "{e2Manager},RAN:test1",
              "{e2Manager},PCI:test1:63", "{e2Manager},CELL:02f829:0007ab50",
              "{e2Manager},ENB", "{e2Manager},GNB:03f829:002234",
              "{e2Manager},RAN:test2", "{e2Manager},PCI:test2:63",
              "{e2Manager},NRCELL:02f829:0007ab0120", "{e2Manager},GNB"}
LoadKey   == "{e2Manager},LOAD:test1"
RsmRanKey == "{rsm},RAN:test1"
RsmCfgKey == "{rsm},CFG:GENERAL:v1.0.0"
Keys == {AddressesKey, LoadKey, RsmRanKey, RsmCfgKey} \cup NodebKeys
          \cup {InstanceKey(a) : a \in Addrs}

\* Decoded contents of each kind of record.
InstanceRecs(a) == [address : {a}, associatedRanList : SUBSET Rans,
                    state : {"ACTIVE", "TO_BE_DELETED"}]
RsmRanRecs == [ranName : {"test1"}, enb1MeasurementId : {0, 1},
               enb2MeasurementId : {0, 1}, action : {"start", "stop"},
               actionStatus : BOOLEAN]
RsmCfgRecs == [enableResourceStatus : BOOLEAN]
LoadValue == "load"          \* the protobuf bytes loadscripts writes
NodebValues == {"seeded", "e2m"}

\* The values each key may hold; TypeOK and the writers draw from them.
Values(k) ==
  CASE k = AddressesKey -> {<<Local>>, <<Att0, Att1>>, <<Att0>>}
    [] k = LoadKey      -> {LoadValue}
    [] k = RsmRanKey    -> RsmRanRecs
    [] k = RsmCfgKey    -> RsmCfgRecs
    [] k \in NodebKeys  -> NodebValues
    [] OTHER            -> InstanceRecs(CHOOSE a \in Addrs : k = InstanceKey(a))

\* The fixture calls.  A verify call carries its arguments.
Seeders == {"flush", "getnodes_add", "populate_e2t", "load_add",
            "set_cfg_false"}
NoArgVerifies == {"verify_e2t_addresses_key", "verify_e2t_instance_key",
                  "load_verify_value", "load_verify", "rsm_start_false",
                  "rsm_start_true", "rsm_stop_false", "rsm_stop_true",
                  "rsm_cfg_true", "rsm_cfg_false"}
AddrVerifies == {"no_associated_rans", "exists_in_addresses", "key_exists"}
Call(f, r, a) == [fn |-> f, ran |-> r, addr |-> a]
Calls == {Call(f, None, None) : f \in Seeders \cup NoArgVerifies}
         \cup {Call(f, None, a) : f \in AddrVerifies, a \in Addrs}
         \cup {Call("is_associated", r, a) : r \in Rans, a \in Addrs}

VARIABLES
  store,    \* the Redis key space
  pc,       \* "idle", or the next command of a multi-command fixture
  cur,      \* the fixture running, None when idle
  wStart,   \* writes by other clients before cur started
  writes,   \* writes by other clients so far
  log       \* history: one [call, ret, wStart, wEnd] per returned call

vars == <<store, pc, cur, wStart, writes, log>>

Results == BOOLEAN \cup {None, Raise}

TypeOK ==
  /\ \A k \in Keys : store[k] \in Values(k) \cup {Absent}
  /\ DOMAIN store = Keys
  /\ pc \in {"idle", "flushall", "flush_addresses", "flush_instance", "nodeb"}
  /\ cur \in Calls \cup {None}
  /\ writes \in 0..MaxWrites /\ wStart \in 0..MaxWrites
  /\ log \in Seq([call : Calls, ret : Results, wStart : 0..MaxWrites,
                  wEnd : 0..MaxWrites])

\* A test run starts on an empty database.
Init ==
  /\ store = [k \in Keys |-> Absent]
  /\ pc = "idle" /\ cur = None
  /\ wStart = 0 /\ writes = 0
  /\ log = <<>>

\* redis.Redis(...) without decode_responses: get returns bytes or None.
RawGet(k) == IF store[k] = Absent THEN None ELSE [bytes |-> store[k]]
\* getRedisClientDecodeResponse() followed by json.loads: the document,
\* or None for an absent key (json.loads(None) then raises TypeError).
DecodeGet(k) == IF store[k] = Absent THEN None ELSE store[k]
Exists(k) == store[k] # Absent

Return(c, r, w0) ==
  /\ log' = Append(log, [call |-> c, ret |-> r, wStart |-> w0,
                         wEnd |-> writes])
  /\ pc' = "idle" /\ cur' = None

(***************************************************************************)
(* The verify functions: one read, then the test on what was read.         *)
(***************************************************************************)

\* e2mdbscripts.py 29-34.
verify_ran_is_associated_with_e2t_instance(ran, a) ==
  LET d == DecodeGet(InstanceKey(a))
  IN IF d = None THEN Raise ELSE ran \in d.associatedRanList

\* e2mdbscripts.py 36-41: `not assocRanList`.
verify_e2t_instance_has_no_associated_rans(a) ==
  LET d == DecodeGet(InstanceKey(a))
  IN IF d = None THEN Raise ELSE d.associatedRanList = {}

\* e2mdbscripts.py 43-47.
verify_e2t_instance_exists_in_addresses(a) ==
  LET d == DecodeGet(AddressesKey)
  IN IF d = None THEN Raise ELSE a \in ToSet(d)

\* e2mdbscripts.py 49-51: r.exists, a count, used as a truth value.
verify_e2t_instance_key_exists(a) == Exists(InstanceKey(a))

\* loadscripts.py 60-67.
verify == Exists(LoadKey)

\* e2t_db_script.py 32-38: the stored string equals '["10.0.2.15:38000"]'.
verify_e2t_addresses_key == DecodeGet(AddressesKey) = <<Local>>

\* e2t_db_script.py 41-58: three substring tests; None.find raises.
verify_e2t_instance_key ==
  LET d == DecodeGet(InstanceKey(Local))
  IN IF d = None THEN Raise
     ELSE /\ d.address = Local
          /\ d.associatedRanList = {}
          /\ d.state = "ACTIVE"

\* loadscripts.py 36-45: bytes from a raw client against a str literal.
verify_value == RawGet(LoadKey) # [str |-> LoadValue]

\* rsmscripts.py 37-43: str equality with the literal document; None
\* compares unequal.
verify_rsm_ran_info_start_false ==
  DecodeGet(RsmRanKey) = [ranName |-> "test1", enb1MeasurementId |-> 1,
                          enb2MeasurementId |-> 0, action |-> "start",
                          actionStatus |-> FALSE]

\* rsmscripts.py 24-30 with json.loads: the record, or a raise when absent.
RsmRanJson(test) == IF DecodeGet(RsmRanKey) = None THEN Raise ELSE test

\* rsmscripts.py 46-55.
verify_rsm_ran_info_start_true ==
  LET d == DecodeGet(RsmRanKey)
  IN RsmRanJson(d.ranName = "test1" /\ d.enb1MeasurementId = 1
                /\ d.enb2MeasurementId # 1 /\ d.action = "start"
                /\ d.actionStatus)

\* rsmscripts.py 58-67.
verify_rsm_ran_info_stop_false ==
  LET d == DecodeGet(RsmRanKey)
  IN RsmRanJson(d.ranName = "test1" /\ d.enb1MeasurementId = 1
                /\ d.action = "stop" /\ ~d.actionStatus)

\* rsmscripts.py 70-79.
verify_rsm_ran_info_stop_true ==
  LET d == DecodeGet(RsmRanKey)
  IN RsmRanJson(d.ranName = "test1" /\ d.action = "stop" /\ d.actionStatus)

\* rsmscripts.py 81-97.
GeneralConfigIs(b) ==
  LET d == DecodeGet(RsmCfgKey)
  IN IF d = None THEN Raise ELSE d.enableResourceStatus = b

Verify(c) ==
  CASE c.fn = "is_associated" ->
         verify_ran_is_associated_with_e2t_instance(c.ran, c.addr)
    [] c.fn = "no_associated_rans" ->
         verify_e2t_instance_has_no_associated_rans(c.addr)
    [] c.fn = "exists_in_addresses" ->
         verify_e2t_instance_exists_in_addresses(c.addr)
    [] c.fn = "key_exists" -> verify_e2t_instance_key_exists(c.addr)
    [] c.fn = "verify_e2t_addresses_key" -> verify_e2t_addresses_key
    [] c.fn = "verify_e2t_instance_key" -> verify_e2t_instance_key
    [] c.fn = "load_verify_value" -> verify_value
    [] c.fn = "load_verify" -> verify
    [] c.fn = "rsm_start_false" -> verify_rsm_ran_info_start_false
    [] c.fn = "rsm_start_true" -> verify_rsm_ran_info_start_true
    [] c.fn = "rsm_stop_false" -> verify_rsm_ran_info_stop_false
    [] c.fn = "rsm_stop_true" -> verify_rsm_ran_info_stop_true
    [] c.fn = "rsm_cfg_true" -> GeneralConfigIs(TRUE)
    [] c.fn = "rsm_cfg_false" -> GeneralConfigIs(FALSE)

(***************************************************************************)
(* The test driver: one fixture call at a time.                           *)
(***************************************************************************)

Idle == pc = "idle" /\ Len(log) < MaxCalls

RunVerify(c) ==
  /\ Idle
  /\ c.fn \notin Seeders
  /\ Return(c, Verify(c), writes)
  /\ UNCHANGED <<store, wStart, writes>>

\* cleanup_db.flush, called directly or from getnodes.add (line 36).
StartFlush(c) ==
  /\ Idle
  /\ c.fn \in {"flush", "getnodes_add"}
  /\ pc' = "flushall" /\ cur' = c /\ wStart' = writes
  /\ UNCHANGED <<store, writes, log>>

\* cleanup_db.py 27-35.
FlushAll ==
  /\ pc = "flushall"
  /\ store' = [k \in Keys |-> Absent]
  /\ pc' = "flush_addresses"
  /\ UNCHANGED <<cur, wStart, writes, log>>

\* cleanup_db.py 37.
FlushSetAddresses ==
  /\ pc = "flush_addresses"
  /\ store' = [store EXCEPT ![AddressesKey] = <<Local>>]
  /\ pc' = "flush_instance"
  /\ UNCHANGED <<cur, wStart, writes, log>>

\* Mutant: instance records written without their "state" field.
SeededInstanceNoState(a, rans) == [address |-> a, associatedRanList |-> rans]

SeededInstance(a, rans) ==
  [address |-> a, associatedRanList |-> rans, state |-> "ACTIVE"]

\* cleanup_db.py 39-41; getnodes.add goes on to its own sets.
FlushSetInstance ==
  /\ pc = "flush_instance"
  /\ store' = [store EXCEPT ![InstanceKey(Local)] = SeededInstance(Local, {})]
  /\ IF cur.fn = "flush"
       THEN Return(cur, TRUE, wStart)
       ELSE pc' = "nodeb" /\ UNCHANGED <<cur, log>>
  /\ UNCHANGED <<wStart, writes>>

\* getnodes.py 38-59.
NodebSets ==
  /\ pc = "nodeb"
  /\ store' = [k \in Keys |-> IF k \in NodebKeys THEN "seeded" ELSE store[k]]
  /\ Return(cur, TRUE, wStart)
  /\ UNCHANGED <<wStart, writes>>

\* e2mdbscripts.py 53-58.
populate_e2t_instances ==
  /\ Idle
  /\ store' = [store EXCEPT
                 ![AddressesKey] = <<Att0, Att1>>,
                 ![InstanceKey(Att0)] = SeededInstance(Att0, Rans),
                 ![InstanceKey(Att1)] = SeededInstance(Att1, {})]
  /\ Return(Call("populate_e2t", None, None), TRUE, writes)
  /\ UNCHANGED <<wStart, writes>>

\* loadscripts.py 48-57: set, then return whether the key exists.
load_add ==
  /\ Idle
  /\ store' = [store EXCEPT ![LoadKey] = LoadValue]
  /\ Return(Call("load_add", None, None), store'[LoadKey] # Absent, writes)
  /\ UNCHANGED <<wStart, writes>>

\* rsmscripts.py 32-35: no return statement.
set_general_config_resource_status_false ==
  /\ Idle
  /\ store' = [store EXCEPT ![RsmCfgKey] = [enableResourceStatus |-> FALSE]]
  /\ Return(Call("set_cfg_false", None, None), None, writes)
  /\ UNCHANGED <<wStart, writes>>

\* The E2 manager and the resource status manager under test set or
\* delete one of their keys, between any two Redis commands of the driver.
OtherWrite(k, v) ==
  /\ writes < MaxWrites
  /\ store' = [store EXCEPT ![k] = v]
  /\ writes' = writes + 1
  /\ UNCHANGED <<pc, cur, wStart, log>>

Next ==
  \/ \E c \in Calls : RunVerify(c) \/ StartFlush(c)
  \/ FlushAll \/ FlushSetAddresses \/ FlushSetInstance \/ NodebSets
  \/ populate_e2t_instances \/ load_add
  \/ set_general_config_resource_status_false
  \/ \E k \in WriterKeys : \E v \in Values(k) \cup {Absent} : OtherWrite(k, v)

Spec == Init /\ [][Next]_vars

(***************************************************************************)
(* Properties                                                              *)
(***************************************************************************)

\* loadscripts.verify_value compares the LOAD key with the value
\* loadscripts.add writes and returns True only when they differ: called
\* right after add, with nothing else writing in between, it answers False.
LoadVerifyValueAfterAdd ==
  \A i \in 1..(Len(log) - 1) :
    (/\ log[i].call.fn = "load_add"
     /\ log[i + 1].call = Call("load_verify_value", None, None)
     /\ log[i + 1].wEnd = log[i].wStart)
      => log[i + 1].ret = FALSE

\* What cleanup_db.flush leaves: the two E2T keys and nothing else.
FlushSeed(k) ==
  CASE k = AddressesKey       -> <<Local>>
    [] k = InstanceKey(Local) -> SeededInstance(Local, {})
    [] OTHER                  -> Absent

\* When cleanup_db.flush returns, the store is exactly its seed: no key
\* survives from before flushall and none written since is left.
FlushLeavesOnlySeed ==
  [][pc = "flush_instance" /\ pc' # "flush_instance"
       => \A k \in Keys : store'[k] = FlushSeed(k)]_vars

====
