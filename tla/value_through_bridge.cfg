\* The bridge to i18next and the renderers that call sites carry for structured
\* values.
SPECIFICATION MessageSpec
CHECK_DEADLOCK FALSE
INVARIANT BridgeReadsEmittedValues
