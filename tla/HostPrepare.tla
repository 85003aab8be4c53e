---------------------------- MODULE HostPrepare -----------------------------
(***************************************************************************)
(* The host's write-once memory and what it makes of it.                   *)
(*                                                                         *)
(* Memory (host/memory.py): the cells, the writes a retired transition     *)
(* applies, and the deferred equalities a DEREF_CELL with two absent cells *)
(* leaves to the host.  cells is a function from addresses to cells; an    *)
(* address the dictionary does not hold is ABSENT.  A method that raises   *)
(* is an operator whose result has ok = FALSE.                             *)
(*                                                                         *)
(* Preparation (host/runtime.py, HostRuntime._prepare): how the host turns *)
(* one bytecode slot into a self-contained request: it reads its memory,   *)
(* resolves pointers, proposes inverses, and packs every cell the          *)
(* transition may touch; or it refuses before anything is sent.            *)
(*                                                                         *)
(* A bytecode slot (host/lean_compiler_adapter.py, Operation) is a record  *)
(* with a kind and its operands: offsets for Set <<o>>, Xor and Mul        *)
(* <<a, b, c>>, Deref <<alpha, beta, gamma>> and Jump <<oc, od, of>>;      *)
(* constant for Set; mode for Deref; message_offsets, cv_offset,           *)
(* out_offset and metadata_valid for Blake3.  The loader refuses every     *)
(* other kind.                                                             *)
(***************************************************************************)
EXTENDS Lsc1Transition

-----------------------------------------------------------------------------
(* Memory. *)

Address == 0..U32_MAX

\* prevalidate_write and the check of apply_write.
MayWrite(cells, address, value) ==
    cells[address].present => cells[address].value = value

\* apply_write over a batch, in order.
apply_writes(cells, writes) ==
    LET after[n \in 0..Len(writes)] ==
          IF n = 0 THEN [ok |-> TRUE, cells |-> cells]
          ELSE LET before == after[n - 1]
                   write  == writes[n]
               IN  IF before.ok /\ MayWrite(before.cells, write.address, write.value)
                   THEN [before EXCEPT !.cells[write.address] = Present(write.value)]
                   ELSE [before EXCEPT !.ok = FALSE]
    IN  after[Len(writes)]

\* One pass of the loop of resolve_deferred over the pending pairs.
ResolvePass(cells, pending) ==
    LET after[n \in 0..Len(pending)] ==
          IF n = 0 THEN [ok |-> TRUE, cells |-> cells, still_open |-> <<>>]
          ELSE LET before == after[n - 1]
                   pair   == pending[n]
                   left   == before.cells[pair.target]
                   right  == before.cells[pair.local]
               IN  IF ~left.present /\ ~right.present
                   THEN [before EXCEPT !.still_open = Append(@, pair)]
                   ELSE IF ~left.present
                   THEN [before EXCEPT !.cells[pair.target] = right]
                   ELSE IF ~right.present
                   THEN [before EXCEPT !.cells[pair.local] = left]
                   ELSE [before EXCEPT !.ok = @ /\ left = right]
    IN  after[Len(pending)]

\* Mutant: one pass over the pending pairs, not a fixpoint.
resolve_deferred_once(cells, deferred) == ResolvePass(cells, deferred)

\* resolve_deferred: passes until one resolves nothing.  Every pass that
\* resolves something shortens the list, so Len(deferred) + 1 passes reach it.
\* (A pass that only closes pairs already equal also ends the loop: it leaves
\* cells as they are, and the next pass would too.)
resolve_deferred(cells, deferred) ==
    LET pass[n \in 0..(Len(deferred) + 1)] ==
          IF n = 0 THEN [ok |-> TRUE, cells |-> cells, still_open |-> deferred]
          ELSE LET before == pass[n - 1]
                   next   == ResolvePass(before.cells, before.still_open)
               IN  [next EXCEPT !.ok = @ /\ before.ok]
    IN  pass[Len(deferred) + 1]
-----------------------------------------------------------------------------
(* Preparation. *)

\* What the loader accepts as a slot: the operands its kind calls for, each of
\* its type.
IsSlot(op) ==
    /\ op.kind \in {"Set", "Xor", "Mul", "Deref", "Jump", "Blake3"}
    /\ op.kind = "Set" => DOMAIN op.offsets = 1..1
    /\ op.kind \in {"Xor", "Mul", "Deref", "Jump"} => DOMAIN op.offsets = 1..3
    /\ \A i \in DOMAIN op.offsets : op.offsets[i] \in Nat
    /\ op.constant \in Word
    /\ op.mode \in {"Cell", "Pc", "Fp"}
    /\ op.message_offsets \in Seq(Nat)
    /\ op.cv_offset \in Nat
    /\ op.out_offset \in Nat

\* value^(2^FieldBits - 2): the result is multiplied by every square but the
\* first (host/memory.py field_inverse).
field_inverse(value) ==
    LET square[bit \in 0..FieldBits] ==
          IF bit = 0 THEN value ELSE field_mul(square[bit - 1], square[bit - 1])
        result[bit \in 0..FieldBits] ==
          IF bit <= 1 THEN One ELSE field_mul(result[bit - 1], square[bit - 1])
    IN  result[FieldBits]

\* The forward table of PointerMap: g^index by repeated xtime.
forward ==
    LET power[index \in 0..(INDEX_LIMIT - 1)] ==
          IF index = 0 THEN One ELSE field_xtime(power[index - 1])
    IN  power

\* index_of: the reverse table keeps the first index (setdefault).
IsPointer(value) == \E index \in 0..(INDEX_LIMIT - 1) : forward[index] = value
index_of(value)  ==
    CHOOSE index \in 0..(INDEX_LIMIT - 1) :
        /\ forward[index] = value
        /\ \A lower \in 0..(index - 1) : forward[lower] # value

\* PreparationFault: nothing was sent.
Refused(status) == [refused |-> status]
Prepared(request, addresses) ==
    [refused |-> "no", request |-> request, addresses |-> addresses]

OpcodeOf(op) ==
    CASE op.kind = "Set"    -> "SET_CONSTANT"
      [] op.kind = "Xor"    -> "XOR"
      [] op.kind = "Mul"    -> "MUL_NATIVE"
      [] op.kind = "Jump"   -> "JUMP"
      [] op.kind = "Blake3" -> "BLAKE3_REQUEST"
      [] OTHER -> IF op.mode = "Cell" THEN "DEREF_CELL"
                  ELSE IF op.mode = "Pc" THEN "DEREF_PC" ELSE "DEREF_FP"

\* A witness exactly when the endpoint will back-solve (_inverse_witness).
inverse_witness(op, cells, profile) ==
    LET known == IF cells[1].present THEN cells[1] ELSE cells[2]
    IN  IF /\ op.kind = "Mul"
           /\ profile = INTERPRETER_COMPAT
           /\ cells[3].present
           /\ cells[1].present # cells[2].present
           /\ known.value # Zero
        THEN Present(field_inverse(known.value))
        ELSE ABSENT

-----------------------------------------------------------------------------
CellsAt(memory, addresses) == [i \in DOMAIN addresses |-> memory[addresses[i]]]

\* The request for a slot: the preamble, the slot's operands and the cells at
\* the addresses; witnesses are added by the caller.
Packed(op, at, cells) ==
    [opcode |-> OpcodeOf(op), txn_id |-> at.txn_id, pc |-> at.pc, fp |-> at.fp,
     profile |-> at.profile, cells |-> cells,
     offsets |-> op.offsets, constant |-> op.constant,
     base |-> 0, taken |-> FALSE, dest_pc |-> 0, dest_fp |-> 0,
     proposed_inverse |-> ABSENT, message_offsets |-> op.message_offsets,
     cv_offset |-> op.cv_offset, out_offset |-> op.out_offset,
     metadata_valid |-> op.metadata_valid]

PrepareSet(op, at, memory) ==
    LET addresses == Addresses(at.fp, op.offsets)
    IN  IF Overflows(addresses) THEN Refused("U32_OVERFLOW")
        ELSE Prepared(Packed(op, at, CellsAt(memory, addresses)), addresses)

PrepareBinary(op, at, memory) ==
    LET addresses == Addresses(at.fp, op.offsets)
        cells     == CellsAt(memory, addresses)
    IN  IF Overflows(addresses) THEN Refused("U32_OVERFLOW")
        ELSE Prepared([Packed(op, at, cells) EXCEPT !.proposed_inverse =
                          inverse_witness(op, cells, at.profile)],
                      addresses)

\* Mutant: the target's cell is read relative to fp, not to the pointer.
PrepareDerefLocal(op, at, memory) ==
    LET pointer == at.fp + op.offsets[1]
        base    == index_of(memory[pointer].value)
        target  == base + op.offsets[2]
        local   == at.fp + op.offsets[3]
        cells   == CellsAt(memory, <<pointer, at.fp + op.offsets[2], local>>)
    IN  IF pointer > U32_MAX THEN Refused("U32_OVERFLOW")
        ELSE IF ~memory[pointer].present \/ ~IsPointer(memory[pointer].value)
             THEN Refused("BAD_POINTER")
        ELSE IF target > U32_MAX \/ local > U32_MAX THEN Refused("U32_OVERFLOW")
        ELSE Prepared([Packed(op, at, cells) EXCEPT !.base = base],
                      <<pointer, target, local>>)

PrepareDeref(op, at, memory) ==
    LET pointer == at.fp + op.offsets[1]
        base    == index_of(memory[pointer].value)
        target  == base + op.offsets[2]
        local   == at.fp + op.offsets[3]
        addresses == <<pointer, target, local>>
    IN  IF pointer > U32_MAX THEN Refused("U32_OVERFLOW")
        ELSE IF ~memory[pointer].present \/ ~IsPointer(memory[pointer].value)
             THEN Refused("BAD_POINTER")
        ELSE IF target > U32_MAX \/ local > U32_MAX THEN Refused("U32_OVERFLOW")
        ELSE Prepared([Packed(op, at, CellsAt(memory, addresses)) EXCEPT !.base = base],
                      addresses)

PrepareJump(op, at, memory) ==
    LET addresses == Addresses(at.fp, op.offsets)
        cells     == CellsAt(memory, addresses)
        taken     == cells[1].present /\ cells[1].value # Zero
    IN  IF Overflows(addresses) THEN Refused("U32_OVERFLOW")
        ELSE IF ~taken THEN Prepared(Packed(op, at, cells), addresses)
        ELSE IF \E i \in {2, 3} : ~cells[i].present \/ ~IsPointer(cells[i].value)
             THEN Refused("BAD_POINTER")
        ELSE Prepared([Packed(op, at, cells) EXCEPT
                          !.taken   = TRUE,
                          !.dest_pc = index_of(cells[2].value),
                          !.dest_fp = index_of(cells[3].value),
                          !.proposed_inverse = Present(field_inverse(cells[1].value))],
                      addresses)

PrepareBlake3(op, at, memory) ==
    LET addresses == blake3_addresses(Packed(op, at, <<>>))
    IN  IF ~op.metadata_valid THEN Refused("BAD_SERVICE")
        ELSE IF Overflows(addresses) THEN Refused("U32_OVERFLOW")
        ELSE Prepared(Packed(op, at, CellsAt(memory, addresses)), addresses)

\* at: the host's pc, fp, profile and the transaction id just drawn.
prepare(op, at, memory) ==
    IF op.kind = "Set" THEN PrepareSet(op, at, memory)
    ELSE IF op.kind = "Deref" THEN PrepareDeref(op, at, memory)
    ELSE IF op.kind = "Jump" THEN PrepareJump(op, at, memory)
    ELSE IF op.kind = "Blake3" THEN PrepareBlake3(op, at, memory)
    ELSE PrepareBinary(op, at, memory)
=============================================================================
