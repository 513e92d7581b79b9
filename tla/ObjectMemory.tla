----------------------------- MODULE ObjectMemory -----------------------------
(***************************************************************************)
(* The memory of symbolic states: ObjectState (Memory.cpp), which keeps    *)
(* each byte as a concrete value, as a known expression, or only in a list *)
(* of updates of an array, and AddressSpace (AddressSpace.cpp), which      *)
(* shares object states between execution states and copies them when one  *)
(* writes.  External calls work on the concrete bytes (copyOutConcretes,   *)
(* copyInConcretes).                                                       *)
(*                                                                         *)
(* An expression is the function from inputs to the value it has; it is a  *)
(* ConstantExpr if that function is constant.  memory is what a plain      *)
(* array of bytes would hold.                                              *)
(***************************************************************************)
EXTENDS Naturals, Sequences, FiniteSets, FiniteSetsExt, SequencesExt

CONSTANTS
  Inputs,              \* assignments to the symbolic variables
  Size,                \* bytes of an object
  Bytes,               \* values of a byte; 0 is one of them
  Random,              \* 0xAB
  ArrayContents,       \* the input bytes of a symbolic object
  SymbolicOffsets,     \* expressions used as offsets
  SymbolicValues,      \* expressions that are stored
  Addresses,           \* addresses malloc can return
  UseConstantArrays,   \* option
  LittleEndian,        \* Context::isLittleEndian
  FlushedToo,          \* external calls change bytes that have been flushed, too
  MaxStates,           \* bound on execution states
  MaxSteps             \* bound on operations

VARIABLES
  heap,                \* the ObjectStates
  spaces,              \* the AddressSpaces of the execution states
  memory,              \* for each of them, the bytes as written
  steps                \* operations so far

memoryVars == <<heap, spaces, memory, steps>>

Offsets == 0 .. Size - 1

const(c) == [i \in Inputs |-> c]

isConst(v) == \A i, j \in Inputs : v[i] = v[j]

valueOf(v) == v[CHOOSE i \in Inputs : TRUE]

\* The empty function, for no known symbolic bytes and for an empty map.
None == [x \in {} |-> x]

update(f, x, v) == [y \in DOMAIN f \union {x} |-> IF y = x THEN v ELSE f[y]]

without(f, x) == [y \in DOMAIN f \ {x} |-> f[y]]

-----------------------------------------------------------------------------
\* A mask that is null stands for the mask with all bits set.
ObjectState ==
  [owner |-> 0, store |-> [o \in Offsets |-> 0], concreteMask |-> Offsets,
   flushMask |-> Offsets, known |-> None,
   root |-> IF UseConstantArrays THEN <<>> ELSE <<[o \in Offsets |-> const(Random)]>>,
   writes |-> <<>>]

\* makeSymbolic leaves every byte to the array.
symbolicObjectState ==
  [ObjectState EXCEPT !.concreteMask = {}, !.flushMask = {}, !.root = <<ArrayContents>>]

initializeTo(os, byte) ==
  [os EXCEPT !.store = [o \in Offsets |-> byte], !.concreteMask = Offsets,
             !.flushMask = Offsets, !.known = None]

isByteConcrete(os, o) == o \in os.concreteMask

isByteFlushed(os, o) == o \notin os.flushMask

isByteKnownSymbolic(os, o) == o \in DOMAIN os.known

\* UpdateList::extend
extend(os, index, value) == [os EXCEPT !.writes = Append(@, <<index, value>>)]

\* The writes to constant offsets of constants with which the list begins.
concreteWrites(writes) ==
  SelectInSeq(Append(writes, <<>>),
              LAMBDA w : w = <<>> \/ ~ isConst(w[1]) \/ ~ isConst(w[2])) - 1

\* A list without an array gets a constant one, made of these writes.
getUpdates(os) ==
  LET n == concreteWrites(os.writes)
      contents == FoldLeft(LAMBDA c, w : [c EXCEPT ![valueOf(w[1])] = w[2]],
                           [o \in Offsets |-> const(0)], SubSeq(os.writes, 1, n))
  IN IF os.root # <<>> THEN os
     ELSE [os EXCEPT !.root = <<contents>>, !.writes = SubSeq(@, n + 1, Len(@))]

\* The value of a ReadExpr on the list: the latest write to the index counts.
readExpr(os, index) ==
  [i \in Inputs |->
     LET hits == {k \in 1 .. Len(os.writes) : os.writes[k][1][i] = index[i]}
     IN IF hits = {} THEN os.root[1][index[i]][i] ELSE os.writes[Max(hits)][2][i]]

\* The value that is flushed for a byte.
cached(os, o) ==
  IF isByteConcrete(os, o) THEN const(os.store[o]) ELSE os.known[o]

flushByte(os, o) ==
  IF isByteFlushed(os, o) THEN os
  ELSE [extend(os, const(o), cached(os, o)) EXCEPT !.flushMask = @ \ {o}]

\* Ranges are never narrowed (fastRangeCheckOffset): all bytes are flushed.
flushRangeForRead(os) == FoldLeft(flushByte, os, [k \in 1 .. Size |-> k - 1])

\* Mutant: bytes that were flushed before keep their cached value.
flushUnflushedForWrite(os) ==
  LET f == flushRangeForRead(os)
  IN [f EXCEPT !.concreteMask = @ \ os.flushMask,
               !.known = [o \in DOMAIN @ \ os.flushMask |-> @[o]]]

\* For a write the cached values are given up as well.
flushRangeForWrite(os) ==
  [flushRangeForRead(os) EXCEPT !.concreteMask = {}, !.known = None]

\* A byte at a known offset, and what the read leaves behind.
read8(os, o) ==
  IF isByteConcrete(os, o) THEN <<os, const(os.store[o])>>
  ELSE IF isByteKnownSymbolic(os, o) THEN <<os, os.known[o]>>
  ELSE LET u == getUpdates(os) IN <<u, readExpr(u, const(o))>>

read8Symbolic(os, offset) ==
  LET u == getUpdates(flushRangeForRead(os)) IN <<u, readExpr(u, offset)>>

write8(os, o, value) ==
  IF isConst(value)
  THEN [os EXCEPT !.store[o] = valueOf(value), !.known = without(@, o),
                  !.concreteMask = @ \union {o}, !.flushMask = @ \union {o}]
  ELSE [os EXCEPT !.known = update(@, o, value),
                  !.concreteMask = @ \ {o}, !.flushMask = @ \union {o}]

write8Symbolic(os, offset, value) == extend(flushRangeForWrite(os), offset, value)

-----------------------------------------------------------------------------
\* The place of byte i of a value of n bytes.
idx(n, i) == IF LittleEndian THEN i ELSE n - i - 1

readByte(os, offset) ==
  IF isConst(offset) THEN read8(os, valueOf(offset)) ELSE read8Symbolic(os, offset)

plus(offset, k) == [i \in Inputs |-> offset[i] + k]

\* ObjectState::read: width 0 is Bool, else a number of bytes; the bytes of the value,
\* the least significant one first.
read(os, offset, width) ==
  IF width = 0
  THEN LET r == readByte(os, offset) IN <<r[1], <<[i \in Inputs |-> r[2][i] % 2]>>>>
  ELSE FoldLeft(LAMBDA acc, k :
                  LET r == readByte(acc[1], plus(offset, idx(width, k - 1)))
                  IN <<r[1], Append(acc[2], r[2])>>,
                <<os, <<>>>>, [k \in 1 .. width |-> k])

writeByte(os, offset, value) ==
  IF isConst(offset) THEN write8(os, valueOf(offset), value)
                     ELSE write8Symbolic(os, offset, value)

\* ObjectState::write, write16, write32 and write64: value is a sequence of bytes.
write(os, offset, value) ==
  FoldLeft(LAMBDA acc, k :
             writeByte(acc, plus(offset, idx(Len(value), k - 1)), value[k]),
           os, [k \in 1 .. Len(value) |-> k])

-----------------------------------------------------------------------------
\* The states that bind an address; the host's memory is freed with the last of them
\* (ObjectHolder, ~ObjectState, ~MemoryObject, MemoryManager::markFreed).
holders(a) == {s \in DOMAIN spaces : a \in DOMAIN spaces[s].objects}

\* MemoryManager::allocate: malloc returns memory that is not in use.
freeAddresses == {a \in Addresses : holders(a) = {}}

bindObject(s, a, os) ==
  /\ heap' = Append(heap, [os EXCEPT !.owner = spaces[s].cowKey])
  /\ spaces' = [spaces EXCEPT ![s].objects = update(@, a, Len(heap) + 1)]

\* Mutant: a state that is copied goes on with its key.
copyWithOldKey(s) ==
  Append(spaces, [spaces[s] EXCEPT !.cowKey = @ + 1])

\* AddressSpace's copy constructor raises the key of both copies.
copied(s) ==
  LET key == spaces[s].cowKey + 1
  IN Append([spaces EXCEPT ![s].cowKey = key], [spaces[s] EXCEPT !.cowKey = key])

\* AddressSpace::getWriteable and a change of the object state that it returns.
change(s, a, os) ==
  IF heap[spaces[s].objects[a]].owner = spaces[s].cowKey
  THEN /\ heap' = [heap EXCEPT ![spaces[s].objects[a]] = os]
       /\ UNCHANGED spaces
  ELSE bindObject(s, a, os)

\* A read through a const object changes the shared object state.
flushed(s, a, os) ==
  /\ heap' = [heap EXCEPT ![spaces[s].objects[a]] = os]
  /\ UNCHANGED spaces

-----------------------------------------------------------------------------
bytesOf(byte) == [o \in Offsets |-> const(byte)]

\* initializeGlobals has allocated a global, and initialised it to zero.
MemoryInit ==
  LET a == CHOOSE a \in Addresses : TRUE IN
    /\ heap = <<[initializeTo(ObjectState, 0) EXCEPT !.owner = 1]>>
    /\ spaces = <<[cowKey |-> 1, objects |-> update(None, a, 1)]>>
    /\ memory = <<update(None, a, bytesOf(0))>>
    /\ steps = 0

step == steps < MaxSteps /\ steps' = steps + 1

\* executeAlloc for a constant size; zeroed for calloc.
executeAlloc(s, byte) ==
  /\ step
  /\ \E a \in freeAddresses :
       /\ bindObject(s, a, initializeTo(ObjectState, byte))
       /\ memory' = [memory EXCEPT ![s] = update(@, a, bytesOf(byte))]

\* realloc: the bytes are read and written one by one.
executeRealloc(s, old) ==
  /\ step
  /\ old \in DOMAIN spaces[s].objects
  /\ \E a \in freeAddresses :
       LET from == heap[spaces[s].objects[old]]
           to == FoldLeft(LAMBDA os, k : write8(os, k - 1, read8(from, k - 1)[2]),
                          [initializeTo(ObjectState, Random) EXCEPT !.owner = spaces[s].cowKey],
                          [k \in 1 .. Size |-> k])
       IN /\ heap' = Append(heap, to)
          /\ spaces' = [spaces EXCEPT ![s].objects =
                          without(update(@, a, Len(heap) + 1), old)]
          /\ memory' = [memory EXCEPT ![s] = without(update(@, a, @[old]), old)]

\* executeFree after the address is resolved: unbindObject.
executeFree(s, a) ==
  /\ step
  /\ a \in DOMAIN spaces[s].objects
  /\ spaces' = [spaces EXCEPT ![s].objects = without(@, a)]
  /\ memory' = [memory EXCEPT ![s] = without(@, a)]
  /\ UNCHANGED heap

\* executeMakeSymbolic: a new object state replaces the binding.
executeMakeSymbolic(s, a) ==
  /\ step
  /\ a \in DOMAIN spaces[s].objects
  /\ bindObject(s, a, symbolicObjectState)
  /\ memory' = [memory EXCEPT ![s][a] = ArrayContents]

\* ExecutionState::branch copies the address space.
branch(s) ==
  /\ step
  /\ Len(spaces) < MaxStates
  /\ spaces' = copied(s)
  /\ memory' = Append(memory, memory[s])
  /\ UNCHANGED heap

inBounds(offset, n) == \A i \in Inputs : offset[i] + n <= Size

\* What a plain array holds after the write, byte by byte.
stored(m, offset, value) ==
  FoldLeft(LAMBDA c, k :
             [o \in Offsets |->
                [i \in Inputs |->
                   IF offset[i] + idx(Len(value), k - 1) = o THEN value[k][i] ELSE c[o][i]]],
           m, [k \in 1 .. Len(value) |-> k])

store(s, a, offset, value) ==
  /\ step
  /\ a \in DOMAIN spaces[s].objects
  /\ inBounds(offset, Len(value))
  /\ change(s, a, write(heap[spaces[s].objects[a]], offset, value))
  /\ memory' = [memory EXCEPT ![s][a] = stored(@, offset, value)]

load(s, a, offset, width) ==
  /\ step
  /\ a \in DOMAIN spaces[s].objects
  /\ inBounds(offset, Max({width, 1}))
  /\ flushed(s, a, read(heap[spaces[s].objects[a]], offset, width)[1])
  /\ UNCHANGED memory

\* callExternalFunction: the concrete bytes are copied out, the function changes one, and
\* an object with a difference is made writeable and copied in.  What it writes over a
\* symbolic byte is lost.
external(s, a, o, byte) ==
  /\ step
  /\ a \in DOMAIN spaces[s].objects
  /\ LET os == heap[spaces[s].objects[a]]
     IN /\ os.store[o] # byte
        /\ FlushedToo \/ ~ (isByteConcrete(os, o) /\ isByteFlushed(os, o))
        /\ change(s, a, [os EXCEPT !.store[o] = byte])
        /\ memory' = [memory EXCEPT ![s][a][o] =
                        IF isByteConcrete(os, o) THEN const(byte) ELSE @]

-----------------------------------------------------------------------------
someOffsets == SymbolicOffsets \union {const(o) : o \in Offsets}

someValues ==
  {<<const(1)>>} \union {<<v>> : v \in SymbolicValues}
    \union {<<v, const(1)>> : v \in SymbolicValues} \union {<<const(1), const(0)>>}

MemoryNext ==
  \E s \in DOMAIN spaces :
    \/ branch(s)
    \/ \E byte \in {0, Random} : executeAlloc(s, byte)
    \/ \E a \in Addresses :
         \/ executeRealloc(s, a)
         \/ executeFree(s, a)
         \/ executeMakeSymbolic(s, a)
         \/ \E offset \in someOffsets :
              \/ \E value \in someValues : store(s, a, offset, value)
              \/ \E width \in 0 .. Size : load(s, a, offset, width)
         \/ \E o \in Offsets, byte \in Bytes : external(s, a, o, byte)

MemorySpec == MemoryInit /\ [][MemoryNext]_memoryVars

-----------------------------------------------------------------------------
\* In every state, a read of any width at a constant or a symbolic offset gives, for every
\* input, the bytes that this state stored last: neither the caches of ObjectState, nor the
\* flushing of an object that is shared, nor the writes of another state get in between.
ReadsLast ==
  \A s \in DOMAIN spaces : \A a \in DOMAIN spaces[s].objects :
    \A offset \in someOffsets, n \in 1 .. Size :
      inBounds(offset, n) =>
        read(heap[spaces[s].objects[a]], offset, n)[2] =
          [k \in 1 .. n |->
             [i \in Inputs |-> memory[s][a][offset[i] + idx(n, k - 1)][i]]]

\* The assertions of read8 and of the flushes hold: a byte that has not been flushed has a
\* cached value, concrete or symbolic, and never both ("Cache Invariants").
CacheInvariants ==
  \A k \in DOMAIN heap : \A o \in Offsets :
    /\ ~ (isByteConcrete(heap[k], o) /\ isByteKnownSymbolic(heap[k], o))
    /\ isByteFlushed(heap[k], o) \/ isByteConcrete(heap[k], o)
         \/ isByteKnownSymbolic(heap[k], o)

\* An object state that an address space may write to without a copy, as it has its key, is
\* bound in no other address space (the set of objects "that we own").
OwnedOnce ==
  \A s, t \in DOMAIN spaces : \A a \in DOMAIN spaces[s].objects :
    LET k == spaces[s].objects[a]
    IN /\ heap[k].owner <= spaces[s].cowKey
       /\ heap[k].owner = spaces[s].cowKey /\ s # t =>
            \A b \in DOMAIN spaces[t].objects : spaces[t].objects[b] # k

=============================================================================
