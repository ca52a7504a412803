------------------------------ MODULE SymbolDump ------------------------------
(***************************************************************************)
(* How the crash report shows one variable (EnumerateSymbolsCallback and   *)
(* DumpTypeIndex of common/Debugging/WheatyExceptionReport.cpp).           *)
(* DumpTypeIndex calls itself through pointers, members, base classes and  *)
(* array elements; calls is its stack of activations, the last one is      *)
(* running, and a step goes from one of its calls to the next.  The other  *)
(* threads are not suspended meanwhile, so that each pointer is read as    *)
(* whatever it is at that moment.                                          *)
(*                                                                         *)
(* Of the texts only whether there is one is kept: a detail is printed if  *)
(* it has a value or children.                                             *)
(***************************************************************************)
EXTENDS Integers, Sequences, FiniteSets, SequencesExt

CONSTANTS
    Info,         \* what SymGetTypeInfo says of each type index
    Symbols,      \* the symbols SymEnumSymbols finds in a stack frame, in its order
    Objects,      \* bound: the valid addresses that pointers are read as
    MaxNesting,   \* WER_MAX_NESTING_LEVEL
    MaxElements   \* WER_MAX_ARRAY_ELEMENTS_COUNT

\* Tag "none": the type is not known; inner: the type pointed to, of the data
\* or of the elements, if that is known; count: of the elements, -1 if that is
\* not known; text: std::string, or of basic type char.
ASSUME InfoAssumption ==
    /\ \A t \in DOMAIN Info :
          /\ Info[t].tag \in {"none", "Pointer", "Data", "Array", "Base", "Enum", "UDT",
                              "BaseClass", "Function"}
          /\ Info[t].inner \subseteq DOMAIN Info /\ \A i, j \in Info[t].inner : i = j
          /\ Info[t].size \in Nat /\ Info[t].count \in Nat \cup {-1}
          /\ Info[t].text \in BOOLEAN /\ Info[t].static \in BOOLEAN
          /\ Info[t].children \in Seq([type : DOMAIN Info, offset : Int])
    /\ Symbols \in Seq([type : DOMAIN Info, addr : Int, kind : {"function", "register", "variable"}])
    /\ Objects \subseteq Int
    /\ MaxNesting \in Nat \ {0, 1} /\ MaxElements \in Nat

VARIABLES
    symbols,   \* symbols: the pairs of a type and an address dumped so far
    details,   \* symbolDetails
    calls,     \* the activations of DumpTypeIndex
    handled,   \* bHandled, as the call that returned last has set it
    dumping    \* FormatSymbolValue is running

dumpVars == <<symbols, details, calls, handled, dumping>>

NullPtr == 0
Bad  == -1   \* DWORD_PTR(-1)

DumpInit ==
    /\ symbols = {} /\ details = <<>>
    /\ calls = <<>> /\ handled = FALSE
    /\ dumping = FALSE

-----------------------------------------------------------------------------
(* symbolDetails and symbols                                               *)

SymbolDetail == [value |-> FALSE, hasChildren |-> FALSE, logged |-> FALSE]

empty(d) == ~d.value /\ ~d.hasChildren

PrintSymbolDetail(ds) ==
    IF ds = <<>> \/ empty(Last(ds)) THEN ds ELSE [ds EXCEPT ![Len(ds)].logged = TRUE]

PushSymbolDetail(ds) == Append(PrintSymbolDetail(ds), SymbolDetail)

PopSymbolDetail(ds) == Front(PrintSymbolDetail(ds))

\* FormatOutputValue, which never fails, makes a value for the top detail.
WithValue(ds) == [ds EXCEPT ![Len(ds)].value = TRUE]

\* Mutant of WithChildren: HasChildren is not set.
WithChildrenNot(ds) == ds

WithChildren(ds) == [ds EXCEPT ![Len(ds)].hasChildren = TRUE]

-----------------------------------------------------------------------------
(* The running activation                                                  *)

Top  == Last(calls)
Type == Info[Top.type]
Inner == CHOOSE t \in Type.inner : TRUE

\* n is the address a pointer holds, or the number of elements to be shown.
Activation(type, addr, logChildren) ==
    [type |-> type, addr |-> addr, logChildren |-> logChildren, at |-> "enter", index |-> 1, n |-> 0]

\* The running activation goes on as "then" once the one it calls returns.
Call(then, type, addr, logChildren) ==
    /\ calls' = Append(Append(Front(calls), then), Activation(type, addr, logChildren))
    /\ handled' = FALSE

GoOn(then) == calls' = Append(Front(calls), then) /\ UNCHANGED handled

Return(b) == calls' = Front(calls) /\ handled' = b

At(place) == calls # <<>> /\ Top.at = place

\* std::string is shown as a text.
IsString == Type.tag = "UDT" /\ Type.text

Entered(tags) == At("enter") /\ Type.tag \in tags /\ ~IsString

Pair == <<Top.type, Top.addr>>

\* StoreSymbol returned true.
StoreSymbol == Pair \notin symbols /\ symbols' = symbols \cup {Pair}

\* DereferenceUnsafePointer.
Dereferenced(addr) == IF addr \in {NullPtr, Bad} THEN {Bad} ELSE {NullPtr, Bad} \cup Objects

-----------------------------------------------------------------------------
(* DumpTypeIndex                                                           *)

Unknown ==
    /\ Entered({"none"})
    /\ Return(FALSE)
    /\ UNCHANGED <<symbols, details>>

StdString ==
    /\ At("enter") /\ IsString
    /\ details' = WithValue(details)
    /\ Return(TRUE)
    /\ UNCHANGED symbols

AlreadyStored ==
    /\ At("enter") /\ Type.tag # "none" /\ ~IsString
    /\ Pair \in symbols
    /\ Return(Type.tag = "BaseClass")
    /\ UNCHANGED <<symbols, details>>

\* Mutant of MayNest: the nesting is not limited.
MayNestAlways == TRUE

MayNest == Len(details) < MaxNesting

Pointer ==
    /\ Entered({"Pointer"}) /\ Type.inner # {}
    /\ StoreSymbol
    /\ details' = WithValue(details)
    /\ \E address \in Dereferenced(Top.addr) :
          Call([Top EXCEPT !.at = "pointee", !.n = address], Inner, address,
               Top.logChildren /\ MayNest /\ address \notin {NullPtr, Bad})

PointerShown ==
    /\ At("pointee")
    /\ details' = IF ~handled \/ Top.n \in {NullPtr, Bad} THEN WithValue(details) ELSE details
    /\ IF ~handled \/ Top.n = Bad THEN Return(TRUE) ELSE GoOn([Top EXCEPT !.at = "children"])
    /\ UNCHANGED symbols

\* Data of a type that DumpTypeIndex shows.
Data ==
    /\ Entered({"Data"}) /\ Type.inner # {}
    /\ Info[Inner].tag \in {"UDT", "Pointer", "Array"}
    /\ StoreSymbol
    /\ Call([Top EXCEPT !.at = "children"], Inner, Top.addr,
            Top.logChildren /\ (Info[Inner].tag = "UDT" => MayNest))
    /\ UNCHANGED details

Array ==
    /\ Entered({"Array"}) /\ Type.inner # {}
    /\ StoreSymbol
    /\ details' = WithChildren(details)
    /\ Call([Top EXCEPT !.at = "first"], Inner, Top.addr, FALSE)

\* The value the first element has left is taken off the array.  The number of
\* elements of an array without a known count is read from an uninitialised
\* variable.
ArrayCounted ==
    /\ At("first")
    /\ LET cleared == [details EXCEPT ![Len(details)].value = FALSE]
       IN  IF ~handled /\ Info[Inner].tag = "Base" /\ Info[Inner].text
           THEN details' = WithValue(cleared) /\ Return(TRUE)
           ELSE /\ details' = cleared
                /\ \E count \in IF Type.count = -1 THEN 0 .. MaxElements ELSE {Type.count} :
                      GoOn([Top EXCEPT !.at = "elements", !.n = IF count < MaxElements THEN count ELSE MaxElements])
    /\ UNCHANGED symbols

\* The first element has its value already; the others are dumped.
ArrayElement ==
    /\ At("elements") /\ Top.index <= Top.n
    /\ IF Top.index = 1
       THEN /\ details' = PopSymbolDetail(WithValue(PushSymbolDetail(details)))
            /\ GoOn([Top EXCEPT !.index = @ + 1])
       ELSE /\ details' = PushSymbolDetail(details)
            /\ Call([Top EXCEPT !.at = "element"], Inner, Top.addr + Info[Inner].size * (Top.index - 1), FALSE)
    /\ UNCHANGED symbols

ArrayElementShown ==
    /\ At("element")
    /\ details' = PopSymbolDetail(IF handled THEN details ELSE WithValue(details))
    /\ GoOn([Top EXCEPT !.at = "elements", !.index = @ + 1])
    /\ UNCHANGED symbols

ArrayShown ==
    /\ At("elements") /\ Top.index > Top.n
    /\ Return(TRUE)
    /\ UNCHANGED <<symbols, details>>

Enum ==
    /\ Entered({"Enum"})
    /\ StoreSymbol
    /\ Return(FALSE)
    /\ UNCHANGED details

\* Everything else goes on to the children of the type.
Other ==
    /\ \/ Entered({"Base", "UDT", "BaseClass", "Function"})
       \/ Entered({"Pointer", "Array"}) /\ Type.inner = {}
       \/ Entered({"Data"}) /\ \A i \in Type.inner : Info[i].tag \notin {"UDT", "Pointer", "Array"}
    /\ StoreSymbol
    /\ GoOn([Top EXCEPT !.at = "children"])
    /\ UNCHANGED details

NoChildren ==
    /\ At("children") /\ Type.children = <<>>
    /\ Return(handled)
    /\ UNCHANGED <<symbols, details>>

\* Functions, enums, typedefs, tables of virtual functions and static members
\* are left out.  What is no data, a base class or a nested class, has no data
\* kind, so that an uninitialised variable decides about it.
LeftOut(t) ==
    CASE Info[t].tag \in {"Function", "Enum"} -> {TRUE}
      [] Info[t].tag = "Data" -> {Info[t].static}
      [] OTHER -> BOOLEAN

Child == Type.children[Top.index]

SkipChild ==
    /\ At("children") /\ Top.index <= Len(Type.children)
    /\ TRUE \in LeftOut(Child.type)
    /\ GoOn([Top EXCEPT !.index = @ + 1])
    /\ UNCHANGED <<symbols, details>>

DumpChild ==
    /\ At("children") /\ Top.index <= Len(Type.children)
    /\ FALSE \in LeftOut(Child.type)
    /\ IF Top.logChildren
       THEN /\ details' = PushSymbolDetail(WithChildren(details))
            /\ Call([Top EXCEPT !.at = "child"], Child.type, Top.addr + Child.offset, TRUE)
       ELSE details' = WithChildren(details) /\ Return(FALSE)
    /\ UNCHANGED symbols

ChildShown ==
    /\ At("child")
    /\ details' = PopSymbolDetail(IF handled THEN details ELSE WithValue(details))
    /\ GoOn([Top EXCEPT !.at = "children", !.index = @ + 1])
    /\ UNCHANGED symbols

ChildrenShown ==
    /\ At("children") /\ Type.children # <<>> /\ Top.index > Len(Type.children)
    /\ Return(TRUE)
    /\ UNCHANGED <<symbols, details>>

DumpTypeIndex ==
    /\ \/ Unknown \/ StdString \/ AlreadyStored
       \/ Pointer \/ PointerShown \/ Data
       \/ Array \/ ArrayCounted \/ ArrayElement \/ ArrayElementShown \/ ArrayShown
       \/ Enum \/ Other
       \/ NoChildren \/ SkipChild \/ DumpChild \/ ChildShown \/ ChildrenShown
    /\ UNCHANGED dumping

-----------------------------------------------------------------------------
(* The callback                                                            *)

\* ClearSymbols, and FormatSymbolValue up to the call of DumpTypeIndex, which
\* functions and variables in registers do not reach.
EnumerateSymbolsCallback(s) ==
    /\ ~dumping
    /\ symbols' = {} /\ handled' = FALSE
    /\ dumping' = (s.kind = "variable")
    /\ details' = IF s.kind = "variable" THEN PushSymbolDetail(<<>>) ELSE <<>>
    /\ calls' = IF s.kind = "variable" THEN <<Activation(s.type, s.addr, TRUE)>> ELSE <<>>

FormatSymbolValueEnds ==
    /\ dumping /\ calls = <<>>
    /\ details' = PopSymbolDetail(IF handled THEN details ELSE WithValue(details))
    /\ dumping' = FALSE
    /\ UNCHANGED <<symbols, calls, handled>>

\* An exception anywhere in FormatSymbolValue: what it has left stays until the
\* next callback.
Punt ==
    /\ dumping
    /\ dumping' = FALSE /\ calls' = <<>>
    /\ UNCHANGED <<symbols, details, handled>>

DumpStep == DumpTypeIndex \/ FormatSymbolValueEnds \/ Punt

-----------------------------------------------------------------------------
(* Properties                                                              *)

\* An activation inside which the nesting is looked at: the outermost one, and
\* each class whose members are shown that was reached through a pointer or a
\* data member.  Base classes and nested classes are not, arrays neither.
Limited(i) ==
    \/ i = 1
    \/ Info[calls[i].type].tag = "UDT" /\ calls[i].logChildren /\ calls[i - 1].at # "child"

\* The activations from the i-th on that have pushed a detail of their own.
Pushing(i) == {j \in i .. Len(calls) : calls[j].at \in {"child", "element"}}

\* Whatever the pointers of the dumped objects hold, also if they lead round in
\* circles and change while they are followed, and also after a callback that
\* gave up halfway, no class is opened at WER_MAX_NESTING_LEVEL: symbolDetails
\* is deeper only by the member, the base and nested classes and the arrays
\* that are being shown of the class opened last.
NestingBounded ==
    dumping => \A i \in DOMAIN calls : Limited(i) => Len(details) < MaxNesting + Cardinality(Pushing(i))

\* PushSymbolDetail keeps the hierarchy of the report: whenever a member or an
\* element is being dumped, the lines of everything it is part of are written.
ParentsFirst == \A i \in 1 .. Len(details) - 1 : details[i].logged
=============================================================================
