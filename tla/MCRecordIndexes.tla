--------------------------- MODULE MCRecordIndexes ----------------------------
(* Keys for small instances of RecordIndexes.                              *)
EXTENDS RecordIndexes

\* Of pages and posts: page.slug and post.slug.
MCTypeKeys == {<<"page">>, <<"post">>}
MCFieldKeys == {<<"slug">>}

\* blog.post_slug and blog_post.slug.
MCJoinedTypeKeys == {<<"blog">>, <<"blog", "post">>}
MCJoinedFieldKeys == {<<"slug">>, <<"post", "slug">>}

===============================================================================
