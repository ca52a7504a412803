---------------------------- MODULE MCCrashReport ----------------------------
(***************************************************************************)
(* A small program for the crash report: a class with two levels of base   *)
(* classes, a pointer to itself, an array of arrays, a text and a static   *)
(* member; variables in memory and in registers.                           *)
(***************************************************************************)
EXTENDS CrashReport

T(tag, inner, size) ==
    [tag |-> tag, inner |-> inner, size |-> size, count |-> 0, text |-> FALSE, static |-> FALSE,
     children |-> <<>>]

C(type, offset) == [type |-> type, offset |-> offset]

MCInfo == [
    int     |-> T("Base", {}, 1),
    char    |-> [T("Base", {}, 1) EXCEPT !.text = TRUE],
    string  |-> [T("UDT", {}, 1) EXCEPT !.text = TRUE],
    colour  |-> T("Enum", {}, 1),
    method  |-> T("Function", {}, 1),
    lost    |-> T("none", {}, 1),
    pairs   |-> [T("Array", {"ints"}, 4) EXCEPT !.count = 2],
    ints    |-> [T("Array", {"int"}, 2) EXCEPT !.count = -1],
    chars   |-> [T("Array", {"char"}, 2) EXCEPT !.count = 2],
    nodes   |-> [T("Array", {"toNode"}, 2) EXCEPT !.count = 3],
    value   |-> T("Data", {"int"}, 1),
    name    |-> T("Data", {"string"}, 1),
    text    |-> T("Data", {"chars"}, 2),
    table   |-> T("Data", {"pairs"}, 4),
    mode    |-> T("Data", {"colour"}, 1),
    shared  |-> [T("Data", {"node"}, 1) EXCEPT !.static = TRUE],
    part    |-> T("Data", {"leaf"}, 1),
    next    |-> T("Data", {"toNode"}, 1),
    toNode  |-> T("Pointer", {"node"}, 1),
    toLost  |-> T("Pointer", {"lost"}, 1),
    opaque  |-> T("Pointer", {}, 1),
    link    |-> T("Data", {"toLost"}, 1),
    handle  |-> T("Data", {"opaque"}, 1),
    top     |-> [T("BaseClass", {}, 1) EXCEPT !.children = <<C("value", 0)>>],
    middle  |-> [T("BaseClass", {}, 1) EXCEPT !.children = <<C("top", 0), C("next", 0)>>],
    leaf    |-> [T("UDT", {}, 1) EXCEPT !.children = <<C("method", 0), C("value", 0)>>],
    node    |-> [T("UDT", {}, 1) EXCEPT !.children =
                     <<C("middle", 0), C("method", 0), C("shared", 0), C("part", 1)>>],
    record  |-> [T("UDT", {}, 1) EXCEPT !.children =
                     <<C("name", 0), C("mode", 1), C("text", 2), C("table", 4), C("link", 8), C("handle", 9),
                       C("leaf", 0)>>]]

V(type) == [type |-> type, addr |-> 100, kind |-> "variable"]

MCSymbols ==
    <<V("toNode"), [V("int") EXCEPT !.kind = "register"], V("record"),
      [V("method") EXCEPT !.kind = "function"], V("nodes"), V("int")>>
=============================================================================
