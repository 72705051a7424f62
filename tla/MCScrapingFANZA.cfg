SPECIFICATION Spec
CONSTANT Catalogue <- FANZACatalogue
INVARIANT FallbacksAreFallbacks
