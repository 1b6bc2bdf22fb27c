------------------------------- MODULE Payload -------------------------------
(***************************************************************************)
(* The payload of a native transfer and how ParsePayload of dna_sdk.go     *)
(* reads it back.  A payload is a sequence of pieces, each with its width  *)
(* in bytes: opcodes and lengths are bytes, an address, a text or a number *)
(* is one piece.  A length that does not end where a piece does is taken   *)
(* as an error; the code may go on from there with whatever it finds.      *)
(***************************************************************************)
EXTENDS Integers, Sequences, SequencesExt, FiniteSetsExt

CONSTANTS
    Places,               \* addresses, one of them the gas contract's
    GAS_CONTRACT_ADDRESS,
    TRANSFER_NAME, TRANSFERFROM_NAME,
    SystemNativeInvoke,   \* the text ParsePayload looks for, of 20 bytes
    OntologyNativeInvoke  \* the text of the payloads in dna_sdk_test.go, of 22

ASSUME PlacesAssumption == GAS_CONTRACT_ADDRESS \in Places /\ Places \cap Nat = {}

Piece(width, val) == [width |-> width, val |-> val]
Byte(n) == Piece(1, n)
Bytes(s) == FoldLeft(LAMBDA n, p : n + p.width, 0, s)

Transfer == Piece(8, TRANSFER_NAME)
TransferFrom == Piece(12, TRANSFERFROM_NAME)

-----------------------------------------------------------------------------
(* The construction of a payload.  A transfer is a list of states           *)
(* <<from, to, value>>, a transferFrom one of <<sender, from, to, value>>.  *)

PushBytes(p) == <<Byte(p.width), p>>

\* Small numbers have opcodes of their own, others are two's complements.
PushInteger(n) ==
    IF n = 0 THEN <<Byte(0)>>
    ELSE IF n \in 1..16 THEN <<Byte(\h50 + n)>>
    ELSE PushBytes(Piece(IF n < 2^7 THEN 1 ELSE IF n < 2^15 THEN 2 ELSE 4, n))

Push(v) == IF v \in Places THEN PushBytes(Piece(20, v)) ELSE PushInteger(v)

\* PUSH0 NEWSTRUCT TOALTSTACK, DUPFROMALTSTACK value APPEND, FROMALTSTACK.
PushStruct(fields) ==
    <<Byte(0), Byte(\hc6), Byte(\h6b)>>
    \o FlattenSeq([i \in DOMAIN fields |-> <<Byte(\h6a)>> \o Push(fields[i]) \o <<Byte(\hc8)>>])
    \o <<Byte(\h6c)>>

\* A list is pushed with its length and PACK, a struct without.
BuildNativeInvokeCode(method, states, name) ==
    FlattenSeq([i \in DOMAIN states |-> PushStruct(states[i])])
    \o (IF method = Transfer THEN PushInteger(Len(states)) \o <<Byte(\hc1)>> ELSE <<>>)
    \o PushBytes(method) \o Push(GAS_CONTRACT_ADDRESS)
    \o <<Byte(0), Byte(\h68)>> \o PushBytes(name)

-----------------------------------------------------------------------------
(* Reading.  A source is the code, the place in it, what has been read so   *)
(* far, whether the loop is over, and whether there was an error.           *)

OPCODE_IN_PAYLOAD == {\hc6, \h6b, \h6a, \hc8, \h6c, \h68, \h67, \h7c, \hc1}

Source(code) == [code |-> code, pos |-> 1, out |-> <<>>, end |-> FALSE, err |-> FALSE]
Eof(s) == s.pos > Len(s.code)
Here(s) == s.code[s.pos].val
Fail(s) == [s EXCEPT !.err = TRUE]
Skip(s, n) == [s EXCEPT !.pos = @ + n]
Read(s, v, n) == [s EXCEPT !.pos = @ + n, !.out = Append(@, v)]

IgnoreOpCode(s) ==
    LET others == {i \in s.pos..Len(s.code) :
                     s.code[i].width > 1 \/ s.code[i].val \notin OPCODE_IN_PAYLOAD}
    IN [s EXCEPT !.pos = IF others = {} THEN Len(s.code) + 1 ELSE Min(others)]

\* A length, and a piece of that many bytes.
AtVarBytes(s) == s.pos < Len(s.code) /\ s.code[s.pos] = Byte(s.code[s.pos + 1].width)
NextVarBytes(s) == IF AtVarBytes(s) THEN Read(s, s.code[s.pos + 1].val, 2) ELSE Fail(s)

ReadAddress(s) ==
    IF AtVarBytes(s) /\ s.code[s.pos] = Byte(20) THEN NextVarBytes(s) ELSE Fail(s)

\* Mutated form: the last of the small numbers is forgotten.
GetValueBelow15(s) ==
    IF Eof(s) THEN Fail(s)
    ELSE IF Here(s) = 0 THEN Read(s, 0, 1)
    ELSE IF Here(s) \in \h51..\h5e THEN Read(s, Here(s) - \h50, 1)
    ELSE NextVarBytes(s)

\* The opcode of 16, \h60, is taken for a length.
GetValue(s) ==
    IF Eof(s) THEN Fail(s)
    ELSE IF Here(s) = 0 THEN Read(s, 0, 1)
    ELSE IF Here(s) \in \h51..\h5f THEN Read(s, Here(s) - \h50, 1)
    ELSE NextVarBytes(s)

\* A further struct, or the length of the list.  The length that is no opcode
\* of 1 to 15 is read as a byte and the one behind it, be it PACK or not; one
\* of two bytes is not read to its end.
IsEnd(s) ==
    IF Eof(s) THEN Fail(s)
    ELSE IF Here(s) = 0 \/ Here(s) \in \h14..\h50 THEN s
    ELSE IF Here(s) \in \h51..\h5f THEN [Skip(s, 1) EXCEPT !.end = TRUE]
    ELSE IF s.pos = Len(s.code) \/ s.code[s.pos + 1].width > 1 THEN Fail(s)
    ELSE [Skip(s, 2) EXCEPT !.end = TRUE]

\* An address or a value, behind the opcodes before it.
Field(s, Get(_)) == IF s.err THEN s ELSE Get(IgnoreOpCode(s))

\* One turn of the loop.
ReadState(s) ==
    IF s.end \/ s.err THEN s
    ELSE IF Eof(s) THEN Fail(s)
    ELSE IF Here(s) # 0 THEN [Skip(s, 1) EXCEPT !.end = TRUE]
    ELSE Field(Field(Field(Field(Skip(s, 1), ReadAddress), ReadAddress), GetValue), IsEnd)

\* The name, which is read and dropped, and the contract.
ReadCallee(s) ==
    LET named == Field(s, NextVarBytes)
    IN IF named.err THEN named ELSE ReadAddress([named EXCEPT !.out = s.out])

\* The loop, turn by turn: a state takes six pieces of the code at least.
MaxTurns(code) == Len(code) \div 6 + 1
Turns(code) ==
    LET turns[n \in 0..MaxTurns(code)] == IF n = 0 THEN Source(code) ELSE ReadState(turns[n - 1])
    IN turns

ParseTransfer(code) == ReadCallee(Turns(code)[MaxTurns(code)])

ParseTransferFrom(code) ==
    LET start == Skip(Source(code), 1)
    IN ReadCallee(Field(Field(Field(Field(start, ReadAddress), ReadAddress), ReadAddress), GetValue))

\* What is read into a result, or that there is none.
Result(s) == IF s.err THEN <<>> ELSE s.out

\* code[l-m : l-n], where it begins and ends with a piece.
Slice(code, m, n) ==
    LET From(k) == {i \in 1..(Len(code) + 1) : Bytes(SubSeq(code, i, Len(code))) = k}
    IN IF From(m) = {} \/ From(n) = {} THEN <<>>
       ELSE SubSeq(code, Min(From(m)), Min(From(n)) - 1)

ParsePayload(code) ==
    IF Bytes(code) > 44 /\ Slice(code, 22, 0) = <<Piece(20, SystemNativeInvoke)>>
    THEN IF Slice(code, 54, 46) = <<Transfer>> THEN Result(ParseTransfer(code))
         ELSE IF Slice(code, 58, 46) = <<TransferFrom>> THEN Result(ParseTransferFrom(code))
         ELSE <<>>
    ELSE <<>>
=============================================================================
