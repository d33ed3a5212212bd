----------------------------- MODULE MCDispatcher -----------------------------
(* Small instances of Dispatcher.  The patterns are those of main.cc, cut  *)
(* to a few parts, with a second name for the parameter of "/post/{id}",    *)
(* patterns that pass through its node, and one that IsValidRoute rejects. *)
EXTENDS DispatcherRefines

Strings == STRING

Lit(s) == [var |-> FALSE, text |-> s]
Par(s) == [var |-> TRUE, text |-> s]

PostNew  == <<Lit(""), Lit("post"), Lit("new")>>
PostId   == <<Lit(""), Lit("post"), Par("id")>>
PostSlug == <<Lit(""), Lit("post"), Par("slug")>>
SlugEdit == <<Lit(""), Lit("post"), Par("slug"), Lit("new")>>
PostDeep == <<Lit(""), Lit("post"), Par("slug"), Par("id")>>
Month    == <<Lit(""), Par("year"), Par("month")>>
Bad      == <<Lit(""), Lit("post"), Lit("a b")>>

MixedValid     == {PostNew, PostId, PostSlug, PostDeep}
MixedTemplates == MixedValid \cup {Bad}
FewValid       == {PostId, SlugEdit, Month}

Texts == {"post", "new", "7"}

(* "/", "/post", "/post/7", "/post/new", "/post/{}", "/post/7/new", "/post/7/" *)
MixedRequests ==
  {<<"", "">>, <<"", "post">>, <<"", "post", "7">>, <<"", "post", "new">>,
   <<"", "post", "{}">>, <<"", "post", "7", "new">>, <<"", "post", "7", "">>}
(* "/post", "/post/new", "/post/7", "/7/new" *)
ExactRequests ==
  {<<"", "post">>, <<"", "post", "new">>, <<"", "post", "7">>, <<"", "7", "new">>}

Hash(templates) ==
  [t \in templates |-> CASE t = PostNew  -> 1
                         [] t = PostId   -> 2
                         [] t = PostSlug -> 3
                         [] t = SlugEdit -> 4
                         [] t = PostDeep -> 5
                         [] t = Month    -> 6
                         [] t = Bad      -> 7]
MixedHash == Hash(MixedTemplates)
FewHash   == Hash(FewValid)
===============================================================================
