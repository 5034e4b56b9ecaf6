--------------------------------- MODULE Fdt ---------------------------------
(***************************************************************************)
(* crates/fdt/src/lib.rs: the flattened device tree.                       *)
(*                                                                         *)
(* A blob is its header fields and `tokens`, the structure block as a      *)
(* sequence of tokens                                                      *)
(*    [t |-> "BEGIN", name, unit]   [t |-> "PROP", name, v]                *)
(*    [t |-> "END"]                 [t |-> "NOP"]                          *)
(* Offsets count tokens.  The value of a property is a sequence of 32-bit  *)
(* cells, or of strings.  Option<T> is <<>> or <<x>>.                      *)
(***************************************************************************)
EXTENDS Checked

CONSTANT CELL           \* 2^32

None == <<>>
Some(x) == <<x>>

\* Header::from_bytes
header_from_bytes(b) ==
    first_error(<< check(b.totalsize >= 40, "ParseError"),
                   check(b.magic, "InvalidHeader"),
                   check(b.version = 17 /\ b.last_comp_version = 16, "UnsupportedVersion") >>)

\* from_raw_ptr takes the length of the data from the header, so that it always
\* agrees with totalsize; what is left is the header itself.
from_raw_ptr(b) == header_from_bytes(b)

tag(s, i, t) == i <= Len(s) /\ s[i].t = t

\* many0_count(tag(FDT_NOP))
skip_nops(s, i) ==
    CHOOSE j \in i..(Len(s) + 1) : ~tag(s, j, "NOP") /\ \A k \in i..(j - 1) : tag(s, k, "NOP")

\* Property::parse
property_at(s, i) ==
    LET j == skip_nops(s, i)
    IN IF tag(s, j, "PROP") THEN Some([prop |-> s[j], next |-> j + 1]) ELSE None

RECURSIVE properties_at(_, _)
\* PropertyIter: the properties at i, and where the last of them ends.
properties_at(s, i) ==
    LET p == property_at(s, i)
        rest == properties_at(s, p[1].next)
    IN IF p # None THEN [props |-> <<p[1].prop>> \o rest.props, next |-> rest.next]
       ELSE [props |-> <<>>, next |-> i]

RECURSIVE parse_node(_, _, _)
RECURSIVE nodes_at(_, _, _)
\* Node::parse
parse_node(s, off, parent_off) ==
    LET begin == skip_nops(s, off)
        p == properties_at(s, begin + 1)
        c == nodes_at(s, p.next, off)
        end == skip_nops(s, c.next)
    IN IF tag(s, begin, "BEGIN") /\ tag(s, end, "END")
       THEN [ok |-> TRUE, next |-> end + 1,
             node |-> [off |-> off, name |-> s[begin].name, unit |-> s[begin].unit,
                       props |-> p.props, children |-> c.nodes, parent_off |-> parent_off]]
       ELSE [ok |-> FALSE, next |-> off]
\* NodeIter: the nodes at off, one after the other.
nodes_at(s, off, parent_off) ==
    LET r == parse_node(s, off, parent_off)
        rest == nodes_at(s, r.next, parent_off)
    IN IF r.ok THEN [nodes |-> <<r.node>> \o rest.nodes, next |-> rest.next]
       ELSE [nodes |-> <<>>, next |-> off]

root_node(b) ==
    LET r == parse_node(b.tokens, 1, None) IN IF r.ok THEN Some(r.node) ELSE None

RECURSIVE preorder(_)
\* The order in which Node::find visits a node and its descendants.
preorder(n) == <<n>> \o FlattenSeq([k \in DOMAIN n.children |-> preorder(n.children[k])])

\* Given the visited nodes that pass the test of the caller.
find(passing) == IF passing = <<>> THEN None ELSE Some(Head(passing))

\* Node::property: the value of the first property of that name.
property(n, name) ==
    LET i == SelectInSeq(n.props, LAMBDA p : p.name = name)
    IN IF i = 0 THEN None ELSE Some(n.props[i].v)

\* find_by_path of a path with one component
find_child(n, name) ==
    LET i == SelectInSeq(n.children, LAMBDA c : c.name = name /\ c.unit = "")
    IN IF i = 0 THEN None ELSE Some(n.children[i])

compatibles(n) == LET v == property(n, "compatible") IN IF v = None THEN {} ELSE ToSet(v[1])

find_compatible(n, name) == find(SelectSeq(preorder(n), LAMBDA m : name \in compatibles(m)))

\* PropValue for u32, for (u32, u32) as its callers combine it, and for (u64, u64),
\* which is also the first element of PropEncodedArray<(u64, u64)>.
u64(hi, lo) == hi * CELL + lo
as_u32(v) == IF v # None /\ Len(v[1]) >= 1 THEN Some(v[1][1]) ELSE None
as_u32_pair(v) == IF v # None /\ Len(v[1]) >= 2 THEN Some(u64(v[1][1], v[1][2])) ELSE None
as_range(v) ==
    IF v # None /\ Len(v[1]) >= 4
    THEN Some([base |-> u64(v[1][1], v[1][2]), len |-> u64(v[1][3], v[1][4])]) ELSE None
=============================================================================
