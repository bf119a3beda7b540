---------------------------- MODULE MCHttpParser ----------------------------
(* Module HttpParser for TLC: requests of each kind, with their headers in *)
(* the orders that matter.                                                 *)
EXTENDS HttpParser

Get(headers)          == [method |-> "GET", headers |-> headers, upload |-> FALSE, data |-> <<>>]
Form(headers, data)   == [method |-> "POST", headers |-> headers, upload |-> FALSE, data |-> data]
Upload(headers, data) == [method |-> "POST", headers |-> headers, upload |-> TRUE, data |-> data]

DataBytes == {"d", CR, LF}

TextSizes == [name \in Method \union Header \union {"filename"} |-> 2]

Requests ==
  { Get(<<>>), Get(<<"host", "keep-alive">>),
    Get([i \in 1 .. 10 |-> "host"]),  \* more than the buffer holds
    [Get(<<"keep-alive">>) EXCEPT !.method = "PUT"],
    Form(<<"keep-alive", "length">>, <<"d", "d">>),
    Form(<<"length", "keep-alive">>, <<"d", "d", "d">>),
    Form(<<"length", "host">>, <<"d">>),
    Form(<<"keep-alive", "length">>, <<>>),
    Form(<<"host">>, <<>>),
    Form(<<"length">>, <<"d", CR, LF, "d">>),
    Upload(<<"keep-alive", "length", "multipart">>, <<CR, "d">>),
    Upload(<<"multipart", "length">>, <<LF>>),
    Upload(<<"keep-alive", "length", "multipart">>, <<"d", CR, LF, CR, LF>>) }
=============================================================================
