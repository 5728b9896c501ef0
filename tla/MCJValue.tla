------------------------------ MODULE MCJValue ------------------------------
(* The instance of JValue and JText that TLC checks; the bounds are in the cfg. *)
EXTENDS JText

CONSTANT Room

Memory     == 1 .. Room
ThreeNames == 1 .. 3
OneSize    == {3}
TwoFails   == {2, 3}

(* Any text of the structure, of strings, of numbers and of comments. *)
TextKinds ==
    {[from |-> <<>>, more |-> {"{", "}", "[", "]", ":", ",", "x", "\""}],
     [from |-> <<"[", "\"">>,
      more |-> {"\"", "\\", "t", "u000a", "u00e9", "uzz", "x", "]"}],
     [from |-> <<"[">>, more |-> {"-", "0", "1", ".", "e", ",", "]", "x"}],
     [from |-> <<"[">>, more |-> {"/", "*", "\n", "x", "1", "]", ","}],
     [from |-> <<"{">>, more |-> {"/", "*", "\n", "x", "}", ":"}],
     [from |-> <<>>, more |-> {"true", "nope", "t", "1", " "}],
     [from |-> <<"[">>, more |-> {"true", "nope", "null", "1", "]", ",", " "}]}

Strings   == {<<>>, <<"\"", "x">>, <<"\\">>, <<"\n">>}
EntryNames == {<<"x">>, <<"\"">>}
ANode(type, p, name, str) ==
    [type |-> type, parent |-> p, name |-> name, str |-> str]

(* The containers that the last value of a document may be followed in. *)
OpenIn(s) ==
    LET path[v \in Nat] == IF v = 0 THEN {} ELSE {v} \cup path[s[v].parent]
    IN {v \in path[Len(s)] : s[v].type \in {"object", "array"}}

NodesAt(p, names) ==
    {ANode(type, p, name, <<>>) : type \in {"object", "array"}, name \in names}
    \cup {ANode("string", p, name, str) : name \in names, str \in Strings}
    \cup {ANode("boolean", p, name, <<word>>) : name \in names, word \in {"true"}}

(* The names that may follow in a container: the order is that of Code. *)
NamesIn(s, p) ==
    IF s[p].type = "array" THEN {<<>>}
    ELSE {n \in EntryNames : \A v \in DOMAIN s :
              s[v].parent = p => Code(s[v].name) < Code(n)}

(* Every document of up to four values. *)
SmallDocs ==
    LET docs[n \in Nat] ==
            IF n = 1 THEN {<<x>> : x \in NodesAt(0, {<<>>})}
            ELSE UNION {{Append(s, x) : x \in UNION {NodesAt(p, NamesIn(s, p)) : p \in OpenIn(s)}} :
                        s \in docs[n - 1]}
    IN UNION {docs[n] : n \in 1..4}

(* One part at a time: a text, or calls on values where the text is empty. *)
MCInit == Init /\ TextInit

MCNext ==
    \/ /\ doc = <<>> /\ text = <<>> /\ alphabet = {} /\ d = Start(1, <<>>)
       /\ Next /\ UNCHANGED textVars
    \/ made = 0 /\ TextNext /\ UNCHANGED vars

MCSpec == MCInit /\ [][MCNext]_<<vars, textVars>>
=============================================================================
