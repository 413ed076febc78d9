----------------------------- MODULE MCPublish -----------------------------
\* Two jobs, and a developer who publishes the target of one of them, or a
\* target out of the matrix that was published long ago.
EXTENDS Publish
MatrixValue == {<<"nodejs22.x", "x86_64">>, <<"python3.13", "x86_64">>}
HandmadeValue == {<<"nodejs22.x", "x86_64">>, <<"nodejs22.x", "arm64">>}
EarlierValue == {<<"nodejs22.x", "arm64">>}
=============================================================================
