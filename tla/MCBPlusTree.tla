---------------------------- MODULE MCBPlusTree ----------------------------
\* Instances of BPlusTree for TLC.
EXTENDS BPlusTree, TLC

\* Every key has a record id of its own, so that an entry whose key and id got
\* out of step shows.
OneRIDPerKey == [k \in Key |-> {100 + k}]
RIDs == {100 + k : k \in Key}

\* Pages named by their height and the keys of their leftmost leaf.  No leaf is
\* like another, so the names tell the pages of a tree apart, and two states
\* that differ only in page ids have the same view.
NameOf ==
    LET name[p \in PageId \cup {NoPage}] ==
            IF p = NoPage THEN <<>>
            ELSE IF pages[p] = NoNode THEN <<>>
            ELSE IF IsLeaf(pages[p]) THEN <<pages[p].keys>>
            ELSE <<"up">> \o name[pages[p].vals[1]]
    IN  name

NodeView(n, name) ==
    IF IsLeaf(n)
    THEN <<n.keys, n.vals, name[n.parent], name[n.prev], name[n.next]>>
    ELSE <<n.keys, [i \in 1 .. Len(n.vals) |-> name[n.vals[i]]], name[n.parent]>>

CallView(name) ==
    CASE call.fn \in {"none", "failed"} -> <<call.fn>>
      [] call.fn = "insertIntoParent" -> <<name[call.old], call.key, name[call.new]>>
      [] call.fn = "handleUnderflow" -> <<name[call.page]>>

TreeView ==
    LET name == NameOf
    IN  <<{NodeView(pages[p], name) : p \in Used}, name[root_page_id], CallView(name)>>
=============================================================================
