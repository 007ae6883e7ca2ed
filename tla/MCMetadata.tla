---- MODULE MCMetadata ----
EXTENDS Metadata
CONSTANTS c1, c2, o1, o2, b1, n1
MCClients == {c1, c2}
MCObjects == {o1, o2}
MCBlobs == {b1}
MCNames == {n1}
\* The requests sent: reads of one object, of the blob and of both; every
\* update of o1, and put_name of o2 (created by the second create_data or
\* shallow_copy).
MCRequests ==
    [op : {"get_data"}, ids : {{o1}, {b1}}, sync : BOOLEAN, wait : BOOLEAN] \cup
    [op : {"get_name"}, name : MCNames, wait : BOOLEAN] \cup
    [op : {"create_data"}, tree : {"object", "untyped"}] \cup
    [op : {"persist", "if_persist", "shallow_copy", "exists"}, id : {o1, b1}] \cup
    [op : {"del_data"}, ids : {{o1}, {b1}}, fastpath : BOOLEAN, feedbacks : BOOLEAN] \cup
    [op : {"put_name"}, id : {o1, o2}, name : MCNames] \cup
    [op : {"drop_name"}, name : MCNames] \cup
    [op : {"create_buffer", "list_data"}]
====
