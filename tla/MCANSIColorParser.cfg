\* The styling path and the strip path on blocks of up to four escape
\* sequences or plain characters, and on every block of up to five characters.
CONSTANTS
  Inputs <- MCInputs
  Builders <- MCBuilders
SPECIFICATION Spec
INVARIANT TypeOK
INVARIANT HtmlRendering
INVARIANT HtmlFailsExactlyOnBadCodes
PROPERTY ImplementsMatchWalk
\* The handler returns after one block: done and error are final states.
CHECK_DEADLOCK FALSE
